---- MODULE Spec2Model ----
(***************************************************************************)
(* Symbolic core of MaqamDetector: the jins/maqam catalog and JinsAnalyzer *)
(* (src/src/JinsLibrary.py), and the fusion and the timeline of MaqamBrain *)
(* (src/src/MaqamBrain.py).                                                *)
(*                                                                         *)
(* Catalogs are Python dicts iterated in insertion order; they are modelled *)
(* as sequences of records in that order, each record carrying its key as  *)
(* the field "name".  A key that an entry does not have (alt_jins2,         *)
(* scale_bins) is absent from the record, and dict.get is DictGet.          *)
(*                                                                         *)
(* Confidences are Python floats that are ratios matches/len, their means   *)
(* and the products by 0.9 and 0.6.  They are modelled exactly, as integers *)
(* counting units of 1/ConfUnit; on the inputs of the specifications below  *)
(* the floats of the code compare as these exact values do.                 *)
(***************************************************************************)
EXTENDS Integers, Sequences, FiniteSets, TLC

VARIABLES
    jins_library,      \* JinsAnalyzer.jins_library
    maqam_structure,   \* JinsAnalyzer.maqam_structure
    sequence,          \* the caller's note sequence (a Python list / array)
    tolerance,         \* match_jins' tolerance argument
    jins2_root,        \* segment_into_jins' jins2_root argument
    jins1_arg,       \* predict_maqam_from_jins' first argument
    jins2_arg,       \* predict_maqam_from_jins' second argument
    pc,                \* "input" before the call, the operation's name after it
    result,            \* the value the operation returned
    jins_result_arg,   \* the symbolic result handed to the fusion
    markov_scores_arg, \* the transition scores handed to the fusion
    mlp_scores_arg,    \* the classifier probabilities handed to the fusion
    sr,                \* predict_timeline's sr argument
    window_seconds,    \* predict_timeline's window_seconds argument, in half seconds
    hop_seconds,       \* predict_timeline's hop_seconds argument, in half seconds
    total_frames,      \* predict_timeline: full_chromagram.shape[1]
    window_frames,     \* predict_timeline's local window_frames
    hop_frames,        \* predict_timeline's local hop_frames
    start_frame,       \* predict_timeline's local start_frame
    timeline,          \* predict_timeline's local timeline
    maqam_counts,      \* predict_timeline's local maqam_counts
    markov_models,     \* MaqamBrain.markov_models
    jins_models,       \* MaqamBrain.jins_models
    mlp,               \* MaqamBrain.mlp
    maqam_db_file,     \* the file maqam_database_hybrid.json
    jins_db_file,      \* the file jins_database.json
    mlp_file,          \* the file mlp_model.pkl
    track,             \* np.argmax(full_chromagram, axis=0): the strongest bin of each frame
    pending,           \* the start frames of the windows not yet predicted
    window_results     \* the timeline entries of the windows predicted so far

\* The variables of a fusion call and those of a timeline scan.
fusion_vars == <<jins_result_arg, markov_scores_arg, mlp_scores_arg>>

timeline_vars == <<sr, window_seconds, hop_seconds, total_frames, window_frames,
                   hop_frames, start_frame, timeline, maqam_counts>>

\* The fields of the brain, the model files, and the variables of a scan
\* whose windows are predicted in any order.
brain_vars == <<markov_models, jins_models, mlp>>

file_vars == <<maqam_db_file, jins_db_file, mlp_file>>

parallel_vars == <<track, pending, window_results>>

vars == <<jins_library, maqam_structure, sequence, tolerance, jins2_root,
          jins1_arg, jins2_arg, pc, result, fusion_vars, timeline_vars,
          brain_vars, file_vars, parallel_vars>>

(***************************************************************************)
(* The shipped catalog                                                     *)
(***************************************************************************)
\* Mutant of JINS_LIBRARY: a catalog whose Saba template lists its offsets
\* out of order.
JINS_LIBRARY_unordered ==
    <<[name |-> "Bayati", size |-> 4, intervals_bins |-> <<0, 5, 9, 15>>,
       ghammaz |-> 15, family |-> "Bayati"],
      [name |-> "Hijaz", size |-> 4, intervals_bins |-> <<0, 3, 12, 15>>,
       ghammaz |-> 15, family |-> "Hijaz"],
      [name |-> "Saba", size |-> 4, intervals_bins |-> <<0, 5, 12, 9>>,
       ghammaz |-> 9, family |-> "Saba"]>>

JINS_LIBRARY ==
    <<
      [name |-> "Bayati", size |-> 4, intervals_bins |-> <<0, 5, 9, 15>>, ghammaz |-> 15, family |-> "Bayati"],
      [name |-> "Rast", size |-> 5, intervals_bins |-> <<0, 6, 10, 15, 21>>, ghammaz |-> 21, family |-> "Rast"],
      [name |-> "Nahawand", size |-> 5, intervals_bins |-> <<0, 6, 9, 15, 21>>, ghammaz |-> 21, family |-> "Nahawand"],
      [name |-> "Hijaz", size |-> 4, intervals_bins |-> <<0, 3, 12, 15>>, ghammaz |-> 15, family |-> "Hijaz"],
      [name |-> "Kurd", size |-> 4, intervals_bins |-> <<0, 3, 9, 15>>, ghammaz |-> 15, family |-> "Kurd"],
      [name |-> "Sikah", size |-> 3, intervals_bins |-> <<0, 5, 11>>, ghammaz |-> 11, family |-> "Sikah"],
      [name |-> "Ajam", size |-> 5, intervals_bins |-> <<0, 6, 12, 15, 21>>, ghammaz |-> 21, family |-> "Ajam"],
      [name |-> "Saba", size |-> 4, intervals_bins |-> <<0, 5, 9, 12>>, ghammaz |-> 9, family |-> "Saba"],
      [name |-> "Nikriz", size |-> 5, intervals_bins |-> <<0, 6, 9, 18, 21>>, ghammaz |-> 21, family |-> "Nikriz"],
      [name |-> "Jiharkah", size |-> 5, intervals_bins |-> <<0, 6, 12, 15, 21>>, ghammaz |-> 21, family |-> "Jiharkah"],
      [name |-> "Athar_Kurd", size |-> 4, intervals_bins |-> <<0, 3, 12, 15>>, ghammaz |-> 15, family |-> "Kurd"],
      [name |-> "Lami", size |-> 4, intervals_bins |-> <<0, 3, 9, 12>>, ghammaz |-> 12, family |-> "Lami"],
      [name |-> "Mustaar", size |-> 4, intervals_bins |-> <<0, 6, 10, 15>>, ghammaz |-> 15, family |-> "Rast"],
      [name |-> "Upper_Rast", size |-> 4, intervals_bins |-> <<0, 6, 10, 15>>, ghammaz |-> 0, family |-> "Rast"],
      [name |-> "Upper_Ajam", size |-> 4, intervals_bins |-> <<0, 6, 12, 15>>, ghammaz |-> 0, family |-> "Ajam"]
    >>

\* Mutant of MAQAM_STRUCTURE: a catalog in which the alternate jins2 of
\* Nahawand is the jins2 of the later Nahawand_Murassaa.
MAQAM_STRUCTURE_shadowing ==
    <<[name |-> "Nahawand", jins1 |-> "Nahawand", jins1_root |-> 0, jins2 |-> "Hijaz",
       jins2_root |-> 21, family |-> "Nahawand", alt_jins2 |-> "Nahawand"],
      [name |-> "Nahawand_Murassaa", jins1 |-> "Nahawand", jins1_root |-> 0,
       jins2 |-> "Nahawand", jins2_root |-> 21, family |-> "Nahawand"]>>

MAQAM_STRUCTURE ==
    <<
      [name |-> "Bayati", jins1 |-> "Bayati", jins1_root |-> 0, jins2 |-> "Nahawand", jins2_root |-> 15, scale_bins |-> <<0, 5, 9, 15, 21, 24, 30, 36>>, family |-> "Bayati"],
      [name |-> "Husayni", jins1 |-> "Bayati", jins1_root |-> 0, jins2 |-> "Bayati", jins2_root |-> 21, family |-> "Bayati"],
      [name |-> "Bayati_Shuri", jins1 |-> "Bayati", jins1_root |-> 0, jins2 |-> "Hijaz", jins2_root |-> 15, family |-> "Bayati"],
      [name |-> "Rast", jins1 |-> "Rast", jins1_root |-> 0, jins2 |-> "Upper_Rast", jins2_root |-> 21, scale_bins |-> <<0, 6, 10, 15, 21, 27, 31, 36>>, family |-> "Rast"],
      [name |-> "Suznak", jins1 |-> "Rast", jins1_root |-> 0, jins2 |-> "Hijaz", jins2_root |-> 21, family |-> "Rast"],
      [name |-> "Nairuz", jins1 |-> "Rast", jins1_root |-> 0, jins2 |-> "Nahawand", jins2_root |-> 21, family |-> "Rast"],
      [name |-> "Nahawand", jins1 |-> "Nahawand", jins1_root |-> 0, jins2 |-> "Hijaz", jins2_root |-> 21, alt_jins2 |-> "Kurd", scale_bins |-> <<0, 6, 9, 15, 21, 24, 33, 36>>, family |-> "Nahawand"],
      [name |-> "Nahawand_Murassaa", jins1 |-> "Nahawand", jins1_root |-> 0, jins2 |-> "Nahawand", jins2_root |-> 21, family |-> "Nahawand"],
      [name |-> "Hijaz", jins1 |-> "Hijaz", jins1_root |-> 0, jins2 |-> "Nahawand", jins2_root |-> 15, alt_jins2 |-> "Rast", scale_bins |-> <<0, 3, 12, 15, 21, 24, 30, 36>>, family |-> "Hijaz"],
      [name |-> "Hijazkar", jins1 |-> "Hijaz", jins1_root |-> 0, jins2 |-> "Hijaz", jins2_root |-> 21, family |-> "Hijaz"],
      [name |-> "Shadd_Araban", jins1 |-> "Hijaz", jins1_root |-> 0, jins2 |-> "Upper_Rast", jins2_root |-> 21, family |-> "Hijaz"],
      [name |-> "Zanjaran", jins1 |-> "Hijaz", jins1_root |-> 0, jins2 |-> "Sikah", jins2_root |-> 12, family |-> "Hijaz"],
      [name |-> "Kurd", jins1 |-> "Kurd", jins1_root |-> 0, jins2 |-> "Nahawand", jins2_root |-> 15, scale_bins |-> <<0, 3, 9, 15, 21, 24, 30, 36>>, family |-> "Kurd"],
      [name |-> "Sikah", jins1 |-> "Sikah", jins1_root |-> 0, jins2 |-> "Rast", jins2_root |-> 11, family |-> "Sikah"],
      [name |-> "Huzam", jins1 |-> "Sikah", jins1_root |-> 0, jins2 |-> "Hijaz", jins2_root |-> 15, family |-> "Sikah"],
      [name |-> "Iraq", jins1 |-> "Sikah", jins1_root |-> 0, jins2 |-> "Bayati", jins2_root |-> 15, family |-> "Sikah"],
      [name |-> "Ajam", jins1 |-> "Ajam", jins1_root |-> 0, jins2 |-> "Upper_Ajam", jins2_root |-> 21, scale_bins |-> <<0, 6, 12, 15, 21, 27, 33, 36>>, family |-> "Ajam"],
      [name |-> "Jiharkah", jins1 |-> "Jiharkah", jins1_root |-> 0, jins2 |-> "Rast", jins2_root |-> 21, family |-> "Ajam"],
      [name |-> "Shawq_Afza", jins1 |-> "Ajam", jins1_root |-> 0, jins2 |-> "Sikah", jins2_root |-> 21, family |-> "Ajam"],
      [name |-> "Saba", jins1 |-> "Saba", jins1_root |-> 0, jins2 |-> "Hijaz", jins2_root |-> 12, scale_bins |-> <<0, 5, 9, 12, 15, 18, 27, 36>>, family |-> "Saba"],
      [name |-> "Saba_Zamzam", jins1 |-> "Saba", jins1_root |-> 0, jins2 |-> "Saba", jins2_root |-> 12, family |-> "Saba"],
      [name |-> "Nikriz", jins1 |-> "Nikriz", jins1_root |-> 0, jins2 |-> "Nahawand", jins2_root |-> 21, alt_jins2 |-> "Upper_Rast", scale_bins |-> <<0, 6, 9, 18, 21, 27, 30, 36>>, family |-> "Nikriz"],
      [name |-> "Nawa_Athar", jins1 |-> "Nikriz", jins1_root |-> 0, jins2 |-> "Hijaz", jins2_root |-> 21, family |-> "Nikriz"],
      [name |-> "Athar_Kurd", jins1 |-> "Athar_Kurd", jins1_root |-> 0, jins2 |-> "Nikriz", jins2_root |-> 15, family |-> "Nikriz"]
    >>

(***************************************************************************)
(* Bounds of the model                                                     *)
(***************************************************************************)
\* match_jins is exercised on note values 0..MaxNote.
MaxNote == 23
\* Longest freely chosen input of match_jins (template inputs may be longer).
MaxMatchLen == 3
\* match_jins is exercised with tolerance 0..MaxTolerance.
MaxTolerance == 2

\* segment_into_jins is exercised on notes 0..MaxSegmentNote, in any order,
\* on sequences of up to MaxSegmentLen notes, at boundaries 0..MaxSegmentNote+1.
MaxSegmentNote == 4
MaxSegmentLen == 4
\* Longest freely built input of analyze_full_sequence (scale inputs may be longer).
MaxSequenceLen == 6

(***************************************************************************)
(* Python helpers                                                          *)
(***************************************************************************)
\* The value None.
None == "<None>"

\* d.get(key, default) on a dict modelled as a record.
DictGet(d, key, default) == IF key \in DOMAIN d THEN d[key] ELSE default

abs(x) == IF x < 0 THEN 0 - x ELSE x

\* One unit of confidence is 1/ConfUnit: a multiple of every template
\* length (3, 4, 5), of 2 (the mean), of 10 (the factors 0.9 and 0.6) and of
\* 6 (the mean of two or of three fused sources).
ConfUnit == 3 * 4 * 5 * 2 * 10 * 6

\* The float 1.0, 0.9 and 0.6 in confidence units, and x * f for such a factor.
ConfOne == ConfUnit
VariantPenalty == (9 * ConfUnit) \div 10
FallbackPenalty == (6 * ConfUnit) \div 10
ConfTimes(x, f) == (x * f) \div ConfUnit

(***************************************************************************)
(* JinsAnalyzer.match_jins                                                 *)
(***************************************************************************)
\* tolerance=2 in match_jins' signature.
DefaultTolerance == 2

\* len(note_sequence) < 3
MinSequenceLen == 3

\* sorted(set(note_sequence)); the loops below only ask whether some note of
\* it is near an interval, so its order is not kept.
unique_notes_of(note_sequence) == {note_sequence[i] : i \in DOMAIN note_sequence}

\* Mutant of interval_matches: no break, every near note adds a match.
interval_matches_no_break(interval, unique_notes, tol) ==
    Cardinality({note \in unique_notes : abs(note - interval) <= tol})

\* Mutant of interval_matches: only a note on the offset itself matches.
interval_matches_exactly(interval, unique_notes, tol) ==
    IF \E note \in unique_notes : note = interval THEN 1 ELSE 0

\* The inner loop: the first note within tolerance adds one match and breaks.
interval_matches(interval, unique_notes, tol) ==
    IF \E note \in unique_notes : abs(note - interval) <= tol THEN 1 ELSE 0

\* "for interval in jins_intervals", from index k on.
RECURSIVE count_matches(_, _, _, _)
count_matches(jins_intervals, k, unique_notes, tol) ==
    IF k > Len(jins_intervals) THEN 0
    ELSE interval_matches(jins_intervals[k], unique_notes, tol)
         + count_matches(jins_intervals, k + 1, unique_notes, tol)

\* score = matches / len(jins_intervals)
jins_score(jins_intervals, unique_notes, tol) ==
    (count_matches(jins_intervals, 1, unique_notes, tol) * ConfUnit)
        \div Len(jins_intervals)

\* Mutant of better_score: a tie replaces the current best.
better_score_or_equal(score, best_score) == score >= best_score

\* if score > best_score
better_score(score, best_score) == score > best_score

\* "for jins_name, jins_data in self.jins_library.items()", from entry k on,
\* carrying best_match and best_score.
RECURSIVE scan_jins(_, _, _, _, _, _)
scan_jins(library, k, unique_notes, tol, best_match, best_score) ==
    IF k > Len(library) THEN [best_match |-> best_match, best_score |-> best_score]
    ELSE LET jins_intervals == DictGet(library[k], "intervals_bins", <<>>)
         IN  IF Len(jins_intervals) = 0
             THEN scan_jins(library, k + 1, unique_notes, tol, best_match, best_score)
             ELSE LET score == jins_score(jins_intervals, unique_notes, tol)
                  IN  IF better_score(score, best_score)
                      THEN scan_jins(library, k + 1, unique_notes, tol, library[k].name, score)
                      ELSE scan_jins(library, k + 1, unique_notes, tol, best_match, best_score)

\* The early return of match_jins.
too_short(note_sequence) == Len(note_sequence) < MinSequenceLen

match_jins(note_sequence, tol) ==
    IF too_short(note_sequence)
    THEN [jins |-> "Unknown", confidence |-> 0]
    ELSE LET best == scan_jins(jins_library, 1, unique_notes_of(note_sequence), tol, None, 0)
         IN  [jins |-> IF best.best_match = None THEN "Unknown" ELSE best.best_match,
              confidence |-> best.best_score]

(***************************************************************************)
(* JinsAnalyzer.segment_into_jins                                          *)
(***************************************************************************)
\* Mutant of in_jins1: the boundary note itself stays in the lower region.
in_jins1_inclusive(note, root) == note <= root

\* if note < jins2_root
in_jins1(note, root) == note < root

\* "for note in sequence", from index i on, carrying the two lists.
RECURSIVE segment_loop(_, _, _, _, _)
segment_loop(seq, i, root, jins1_notes, jins2_notes) ==
    IF i > Len(seq) THEN <<jins1_notes, jins2_notes>>
    ELSE IF in_jins1(seq[i], root)
         THEN segment_loop(seq, i + 1, root, Append(jins1_notes, seq[i]), jins2_notes)
         ELSE segment_loop(seq, i + 1, root, jins1_notes, Append(jins2_notes, seq[i] - root))

\* Returns the pair (jins1_sequence, jins2_sequence).
segment_into_jins(seq, root) == segment_loop(seq, 1, root, <<>>, <<>>)

(***************************************************************************)
(* JinsAnalyzer.predict_maqam_from_jins                                    *)
(***************************************************************************)
\* Mutant of exact_confidence: only jins1's confidence is used.
exact_confidence_jins1_only(jins1_match, jins2_match) == jins1_match.confidence

\* (jins1_match["confidence"] + jins2_match["confidence"]) / 2
exact_confidence(jins1_match, jins2_match) ==
    (jins1_match.confidence + jins2_match.confidence) \div 2

\* Mutant of variant_confidence: the 0.9 penalty is left out.
variant_confidence_no_penalty(jins1_match, jins2_match) ==
    (jins1_match.confidence + jins2_match.confidence) \div 2

\* (jins1_match["confidence"] + jins2_match["confidence"]) / 2 * 0.9
variant_confidence(jins1_match, jins2_match) ==
    ConfTimes((jins1_match.confidence + jins2_match.confidence) \div 2, VariantPenalty)

\* Mutant of fallback_confidence: jins1's confidence without the factor 0.6.
fallback_confidence_no_penalty(jins1_match) == jins1_match.confidence

\* Mutant of fallback_confidence: the variant's factor 0.9 instead of 0.6.
fallback_confidence_variant_factor(jins1_match) ==
    ConfTimes(jins1_match.confidence, VariantPenalty)

\* jins1_match["confidence"] * 0.6
fallback_confidence(jins1_match) == ConfTimes(jins1_match.confidence, FallbackPenalty)

\* self.jins_library.get(jins_name, {}): the entry with that key, or {}.
jins_entry(library, jins_name) ==
    IF \E k \in DOMAIN library : library[k].name = jins_name
    THEN library[CHOOSE k \in DOMAIN library : library[k].name = jins_name]
    ELSE <<>>

\* The result built after the loop found no structure.
fallback_result(library, jins1_match, jins2_match) ==
    [maqam |-> jins1_match.jins \o "-based",
     jins1 |-> jins1_match.jins,
     jins2 |-> jins2_match.jins,
     confidence |-> fallback_confidence(jins1_match),
     family |-> DictGet(jins_entry(library, jins1_match.jins), "family", "Unknown")]

\* "for maqam_name, structure in self.maqam_structure.items()", from entry k
\* on: the first return reached, or the fallback after the loop.
RECURSIVE scan_maqam(_, _, _, _, _)
scan_maqam(structures, library, k, jins1_match, jins2_match) ==
    IF k > Len(structures) THEN fallback_result(library, jins1_match, jins2_match)
    ELSE LET structure == structures[k]
         IN  IF structure.jins1 = jins1_match.jins
             THEN IF structure.jins2 = jins2_match.jins
                  THEN [maqam |-> structure.name,
                        jins1 |-> jins1_match.jins,
                        jins2 |-> jins2_match.jins,
                        confidence |-> exact_confidence(jins1_match, jins2_match),
                        family |-> DictGet(structure, "family", "Unknown")]
                  ELSE IF DictGet(structure, "alt_jins2", None) = jins2_match.jins
                       THEN [maqam |-> structure.name,
                             jins1 |-> jins1_match.jins,
                             jins2 |-> jins2_match.jins,
                             confidence |-> variant_confidence(jins1_match, jins2_match),
                             family |-> DictGet(structure, "family", "Unknown"),
                             variant |-> TRUE]
                       ELSE scan_maqam(structures, library, k + 1, jins1_match, jins2_match)
             ELSE scan_maqam(structures, library, k + 1, jins1_match, jins2_match)

predict_maqam_from_jins(m1, m2) ==
    scan_maqam(maqam_structure, jins_library, 1, m1, m2)

(***************************************************************************)
(* JinsAnalyzer.analyze_full_sequence                                      *)
(***************************************************************************)
\* jins2_roots = [12, 15, 18, 21]
jins2_roots == <<12, 15, 18, 21>>

\* len(jins1_seq) < 3 or len(jins2_seq) < 2
MinJins1Len == 3
MinJins2Len == 2

\* Mutant of skip_candidate: only the lower region is measured.
skip_candidate_lower_only(jins1_seq, jins2_seq) ==
    Len(jins1_seq) < MinJins1Len

skip_candidate(jins1_seq, jins2_seq) ==
    Len(jins1_seq) < MinJins1Len \/ Len(jins2_seq) < MinJins2Len

\* Mutant of better_confidence: a later boundary wins a tie.
better_confidence_or_equal(confidence, best_confidence) == confidence >= best_confidence

\* if result["confidence"] > best_confidence
better_confidence(confidence, best_confidence) == confidence > best_confidence

\* best_result = None before the loop.
NoResult == [none |-> TRUE]

\* "for root in jins2_roots", from index r on, carrying best_result and
\* best_confidence.
RECURSIVE analyze_loop(_, _, _, _)
analyze_loop(seq, r, best_result, best_confidence) ==
    IF r > Len(jins2_roots) THEN best_result
    ELSE LET root == jins2_roots[r]
             seg == segment_into_jins(seq, root)
         IN  IF skip_candidate(seg[1], seg[2])
             THEN analyze_loop(seq, r + 1, best_result, best_confidence)
             ELSE LET res == predict_maqam_from_jins(match_jins(seg[1], DefaultTolerance),
                                                     match_jins(seg[2], DefaultTolerance))
                  IN  IF better_confidence(res.confidence, best_confidence)
                      THEN analyze_loop(seq, r + 1, res @@ [jins2_root |-> root], res.confidence)
                      ELSE analyze_loop(seq, r + 1, best_result, best_confidence)

\* The dict returned when best_result is None.
UnknownResult ==
    [maqam |-> "Unknown", jins1 |-> "Unknown", jins2 |-> "Unknown",
     confidence |-> 0, family |-> "Unknown"]

\* Mutant of analyze_full_sequence: best_result is returned as it is, None
\* when no boundary was tried.
analyze_full_sequence_no_sentinel(seq) == analyze_loop(seq, 1, NoResult, 0)

analyze_full_sequence(seq) ==
    LET best_result == analyze_loop(seq, 1, NoResult, 0)
    IN  IF best_result = NoResult THEN UnknownResult ELSE best_result

\* Mutant of maqam_structure_after: the dict that gets "jins2_root" is the
\* catalog's own entry of the maqam.
maqam_structure_aliased(structures, best_result) ==
    [k \in DOMAIN structures |->
        IF "jins2_root" \in DOMAIN best_result /\ structures[k].name = best_result.maqam
        THEN [jins2_root |-> best_result.jins2_root] @@ structures[k]
        ELSE structures[k]]

\* self.maqam_structure once analyze_full_sequence has returned best_result:
\* best_result["jins2_root"] = root writes the dict that
\* predict_maqam_from_jins built for this call, no entry of the catalog.
maqam_structure_after(structures, best_result) == structures

(***************************************************************************)
(* MaqamBrain: score maps (src/src/MaqamBrain.py)                          *)
(*                                                                         *)
(* markov_scores and mlp_scores are Python dicts from maqam name to float; *)
(* they are sequences of [key, value] records in insertion order.  A       *)
(* classifier probability is counted in units of 1/ConfUnit; a transition  *)
(* score (a log-likelihood) is an integer, its unit being immaterial to    *)
(* the min-max normalisation.                                              *)
(***************************************************************************)
dict_keys(d) == {d[i].key : i \in DOMAIN d}

dict_values(d) == [i \in DOMAIN d |-> d[i].value]

\* d[key], for a key of d.
dict_item(d, key) == d[CHOOSE i \in DOMAIN d : d[i].key = key].value

\* Mutant of first_max: the last of several largest values wins.
RECURSIVE last_max(_, _, _)
last_max(d, k, best) ==
    IF k > Len(d) THEN d[best].key
    ELSE last_max(d, k + 1, IF d[k].value >= d[best].value THEN k ELSE best)

\* max(d, key=d.get) from entry k on, entry best being the largest so far:
\* a later entry replaces it only when strictly larger.
RECURSIVE first_max(_, _, _)
first_max(d, k, best) ==
    IF k > Len(d) THEN d[best].key
    ELSE first_max(d, k + 1, IF d[k].value > d[best].value THEN k ELSE best)

\* max(d, key=d.get) of a non-empty dict.
max_by_get(d) == first_max(d, 2, 1)

RECURSIVE sum(_)
sum(s) == IF s = <<>> THEN 0 ELSE Head(s) + sum(Tail(s))

RECURSIVE min(_)
min(s) == IF Len(s) = 1 THEN s[1]
          ELSE LET m == min(Tail(s)) IN IF s[1] <= m THEN s[1] ELSE m

RECURSIVE max(_)
max(s) == IF Len(s) = 1 THEN s[1]
          ELSE LET m == max(Tail(s)) IN IF s[1] >= m THEN s[1] ELSE m

(***************************************************************************)
(* MaqamBrain._combine_predictions                                         *)
(***************************************************************************)
\* Mutant of _combine_predictions: the transition scores are asked first.
_combine_predictions_markov_first(jins_result, markov_scores, mlp_scores) ==
    IF Len(markov_scores) > 0 THEN max_by_get(markov_scores)
    ELSE IF Len(mlp_scores) > 0 THEN max_by_get(mlp_scores)
    ELSE DictGet(jins_result, "maqam", "Unknown")

_combine_predictions(jins_result, markov_scores, mlp_scores) ==
    IF Len(mlp_scores) > 0 THEN max_by_get(mlp_scores)
    ELSE IF Len(markov_scores) > 0 THEN max_by_get(markov_scores)
    ELSE DictGet(jins_result, "maqam", "Unknown")

(***************************************************************************)
(* MaqamBrain._calculate_confidence                                        *)
(***************************************************************************)
\* if jins_result.get("confidence"): a missing, None or 0.0 confidence is
\* false.
jins_sources(jins_result) ==
    IF "confidence" \in DOMAIN jins_result /\ jins_result.confidence # 0
    THEN <<jins_result.confidence>>
    ELSE <<>>

\* if mlp_scores and prediction in mlp_scores
mlp_sources(mlp_scores, prediction) ==
    IF Len(mlp_scores) > 0 /\ prediction \in dict_keys(mlp_scores)
    THEN <<dict_item(mlp_scores, prediction)>>
    ELSE <<>>

\* Mutant of markov_conf: the distance to the largest score is measured.
markov_conf_from_max(score, scores) ==
    ((max(scores) - score) * ConfUnit) \div (max(scores) - min(scores))

\* (markov_scores[prediction] - min(scores)) / score_range
markov_conf(score, scores) ==
    ((score - min(scores)) * ConfUnit) \div (max(scores) - min(scores))

\* if markov_scores and prediction in markov_scores, then the guards
\* len(scores) > 1 and score_range > 0.
markov_sources(markov_scores, prediction) ==
    IF Len(markov_scores) > 0 /\ prediction \in dict_keys(markov_scores)
    THEN LET scores == dict_values(markov_scores)
         IN  IF Len(scores) > 1
             THEN IF max(scores) - min(scores) > 0
                  THEN <<markov_conf(dict_item(markov_scores, prediction), scores)>>
                  ELSE <<>>
             ELSE <<>>
    ELSE <<>>

\* Mutant of mean_of: the sources are added up.
sum_of(sources) == IF sources # <<>> THEN sum(sources) ELSE 0

\* sum(sources) / len(sources) if sources else 0.0
mean_of(sources) == IF sources # <<>> THEN sum(sources) \div Len(sources) ELSE 0

\* Mutant of _calculate_confidence: the symbolic confidence counts only when
\* the symbolic maqam is the prediction.
_calculate_confidence_of_winner(jins_result, markov_scores, mlp_scores, prediction) ==
    mean_of((IF DictGet(jins_result, "maqam", None) = prediction
             THEN jins_sources(jins_result) ELSE <<>>)
            \o mlp_sources(mlp_scores, prediction)
            \o markov_sources(markov_scores, prediction))

_calculate_confidence(jins_result, markov_scores, mlp_scores, prediction) ==
    mean_of(jins_sources(jins_result)
            \o mlp_sources(mlp_scores, prediction)
            \o markov_sources(markov_scores, prediction))

(***************************************************************************)
(* MaqamBrain.predict                                                      *)
(*                                                                         *)
(* The transition scores and the classifier probabilities come from the    *)
(* trained models, which are not modelled: predict takes them as given.    *)
(***************************************************************************)
\* "jins2_root": jins_result.get("jins2_root", 15)
DefaultJins2Root == 15

predict(note_sequence, markov_scores, mlp_scores) ==
    LET jins_result == analyze_full_sequence(note_sequence)
        best_maqam == _combine_predictions(jins_result, markov_scores, mlp_scores)
        confidence == _calculate_confidence(jins_result, markov_scores, mlp_scores, best_maqam)
    IN  [prediction |-> best_maqam,
         jins_analysis |->
             [jins1 |-> DictGet(jins_result, "jins1", "Unknown"),
              jins2 |-> DictGet(jins_result, "jins2", "Unknown"),
              jins_confidence |-> DictGet(jins_result, "confidence", 0),
              jins2_root |-> DictGet(jins_result, "jins2_root", DefaultJins2Root)],
         markov_scores |-> markov_scores,
         mlp_scores |-> mlp_scores,
         confidence |-> confidence]

(***************************************************************************)
(* MaqamBrain.predict_timeline                                             *)
(*                                                                         *)
(* window_seconds and hop_seconds are counted in half seconds, times in    *)
(* hundredths of a second, and a window's confidence in thousandths.       *)
(***************************************************************************)
hop_length == 512

\* int(seconds * frame_rate) with frame_rate = sr / hop_length, for a
\* non-negative number of half seconds.
frames_of(half_seconds, rate) == (half_seconds * rate) \div (2 * hop_length)

\* The integer nearest to num / den, the even one of two equally near.
round_half_even(num, den) ==
    LET q == num \div den
        r == num % den
    IN  IF 2 * r > den \/ (2 * r = den /\ q % 2 = 1) THEN q + 1 ELSE q

\* round(frame / frame_rate, 2)
time_of(frame, rate) == round_half_even(frame * hop_length * 100, rate)

\* end_frame = min(start_frame + window_frames, total_frames)
end_frame_of(start, window, total) ==
    IF start + window <= total THEN start + window ELSE total

\* if end_frame - start_frame < window_frames // 4: break
too_small(start, end, window) == end - start < window \div 4

\* The entry appended to the timeline for the window [start, end) on which
\* predict returned window_result.
timeline_entry(start, end, rate, window_result) ==
    [start_time |-> time_of(start, rate),
     end_time |-> time_of(end, rate),
     maqam |-> window_result.prediction,
     jins1 |-> DictGet(DictGet(window_result, "jins_analysis", <<>>), "jins1", "Unknown"),
     jins2 |-> DictGet(DictGet(window_result, "jins_analysis", <<>>), "jins2", "Unknown"),
     confidence |-> round_half_even(DictGet(window_result, "confidence", 0) * 1000, ConfUnit)]

\* maqam_counts[maqam] = maqam_counts.get(maqam, 0) + 1: a new key goes last.
count_maqam(counts, maqam) ==
    IF maqam \in dict_keys(counts)
    THEN [i \in DOMAIN counts |->
             IF counts[i].key = maqam
             THEN [key |-> maqam, value |-> counts[i].value + 1]
             ELSE counts[i]]
    ELSE Append(counts, [key |-> maqam, value |-> 1])

\* Mutant of modulation_event: the event is dated at the window it leaves.
modulation_event_at_previous(previous, current) ==
    [time |-> previous.start_time,
     from_maqam |-> previous.maqam,
     to_maqam |-> current.maqam]

\* The event appended when timeline[i] differs from timeline[i-1].
modulation_event(previous, current) ==
    [time |-> current.start_time,
     from_maqam |-> previous.maqam,
     to_maqam |-> current.maqam]

\* for i in range(1, len(timeline)), from the window at position i on.
RECURSIVE modulations_from(_, _)
modulations_from(windows, i) ==
    IF i > Len(windows) THEN <<>>
    ELSE (IF windows[i].maqam # windows[i - 1].maqam
          THEN <<modulation_event(windows[i - 1], windows[i])>>
          ELSE <<>>)
         \o modulations_from(windows, i + 1)

\* max(maqam_counts, key=maqam_counts.get) if maqam_counts else "Unknown"
dominant_of(counts) == IF counts # <<>> THEN max_by_get(counts) ELSE "Unknown"

(***************************************************************************)
(* State machine: a caller builds a note sequence and calls an operation   *)
(***************************************************************************)
NoMatch == [jins |-> "Unknown", confidence |-> 0]

\* os.path.exists(path) is false.
NoFile == [absent |-> TRUE]

\* MLPClassifier._load_model without a model file: a new, unfitted network
\* and no classes.
NewClassifier == [classes_ |-> {}, fitted |-> FALSE]

Init ==
    /\ jins_library = JINS_LIBRARY
    /\ maqam_structure = MAQAM_STRUCTURE
    /\ sequence = <<>>
    /\ tolerance = DefaultTolerance
    /\ jins2_root = 0
    /\ jins1_arg = NoMatch
    /\ jins2_arg = NoMatch
    /\ pc = "input"
    /\ result = NoResult
    /\ jins_result_arg = NoResult
    /\ markov_scores_arg = <<>>
    /\ mlp_scores_arg = <<>>
    /\ sr = 0
    /\ window_seconds = 0
    /\ hop_seconds = 0
    /\ total_frames = 0
    /\ window_frames = 0
    /\ hop_frames = 0
    /\ start_frame = 0
    /\ timeline = <<>>
    /\ maqam_counts = <<>>
    /\ markov_models = <<>>
    /\ jins_models = <<>>
    /\ mlp = NewClassifier
    /\ maqam_db_file = NoFile
    /\ jins_db_file = NoFile
    /\ mlp_file = NoFile
    /\ track = <<>>
    /\ pending = {}
    /\ window_results = {}

\* The caller appends one more note, at or above the last one, to the input
\* of match_jins.
ObserveNote ==
    /\ pc = "input"
    /\ Len(sequence) < MaxMatchLen
    /\ \E note \in 0..MaxNote :
          /\ Len(sequence) > 0 => note >= sequence[Len(sequence)]
          /\ sequence' = Append(sequence, note)
    /\ UNCHANGED <<fusion_vars, timeline_vars>>
    /\ UNCHANGED <<jins_library, maqam_structure, tolerance, jins2_root,
                   jins1_arg, jins2_arg, pc, result>>
    /\ UNCHANGED <<brain_vars, file_vars, parallel_vars>>

\* The caller takes a catalog template's own offsets as the input.
ObserveTemplate ==
    /\ pc = "input"
    /\ sequence = <<>>
    /\ \E k \in DOMAIN jins_library : sequence' = jins_library[k].intervals_bins
    /\ UNCHANGED <<fusion_vars, timeline_vars>>
    /\ UNCHANGED <<jins_library, maqam_structure, tolerance, jins2_root,
                   jins1_arg, jins2_arg, pc, result>>
    /\ UNCHANGED <<brain_vars, file_vars, parallel_vars>>

\* match_jins(sequence, tol) is called and returns.
Call_match_jins ==
    /\ pc = "input"
    /\ \E tol \in 0..MaxTolerance :
          /\ tolerance' = tol
          /\ result' = match_jins(sequence, tol)
    /\ pc' = "match_jins"
    /\ UNCHANGED <<fusion_vars, timeline_vars>>
    /\ UNCHANGED <<jins_library, maqam_structure, sequence, jins2_root,
                   jins1_arg, jins2_arg>>
    /\ UNCHANGED <<brain_vars, file_vars, parallel_vars>>

NextMatch == ObserveNote \/ ObserveTemplate \/ Call_match_jins

SpecMatch == Init /\ [][NextMatch]_vars

\* The caller appends any note to the input of segment_into_jins.
ObserveAnyNote ==
    /\ pc = "input"
    /\ Len(sequence) < MaxSegmentLen
    /\ \E note \in 0..MaxSegmentNote : sequence' = Append(sequence, note)
    /\ UNCHANGED <<fusion_vars, timeline_vars>>
    /\ UNCHANGED <<jins_library, maqam_structure, tolerance, jins2_root,
                   jins1_arg, jins2_arg, pc, result>>
    /\ UNCHANGED <<brain_vars, file_vars, parallel_vars>>

\* segment_into_jins(sequence, root) is called and returns.
Call_segment_into_jins ==
    /\ pc = "input"
    /\ \E root \in 0..(MaxSegmentNote + 1) :
          /\ jins2_root' = root
          /\ result' = segment_into_jins(sequence, root)
    /\ pc' = "segment_into_jins"
    /\ UNCHANGED <<fusion_vars, timeline_vars>>
    /\ UNCHANGED <<jins_library, maqam_structure, sequence, tolerance,
                   jins1_arg, jins2_arg>>
    /\ UNCHANGED <<brain_vars, file_vars, parallel_vars>>

NextSegment == ObserveAnyNote \/ Call_segment_into_jins

SpecSegment == Init /\ [][NextSegment]_vars

\* The names a match result can carry: the catalog's keys and "Unknown".
JinsNames == {JINS_LIBRARY[k].name : k \in DOMAIN JINS_LIBRARY} \cup {"Unknown"}

\* The confidences a match result can carry: m / len for a template length.
MatchConfidences ==
    UNION {{(m * ConfUnit) \div Len(JINS_LIBRARY[k].intervals_bins) :
               m \in 0..Len(JINS_LIBRARY[k].intervals_bins)} : k \in DOMAIN JINS_LIBRARY}

MatchResults == [jins : JinsNames, confidence : MatchConfidences]

\* predict_maqam_from_jins(m1, m2) is called on two match results and returns.
Call_predict_maqam_from_jins ==
    /\ pc = "input"
    /\ \E m1, m2 \in MatchResults :
          /\ jins1_arg' = m1
          /\ jins2_arg' = m2
          /\ result' = predict_maqam_from_jins(m1, m2)
    /\ pc' = "predict_maqam_from_jins"
    /\ UNCHANGED <<fusion_vars, timeline_vars>>
    /\ UNCHANGED <<jins_library, maqam_structure, sequence, tolerance, jins2_root>>
    /\ UNCHANGED <<brain_vars, file_vars, parallel_vars>>

NextInfer == Call_predict_maqam_from_jins

SpecInfer == Init /\ [][NextInfer]_vars

\* bins_per_octave=36 in JinsAnalyzer.__init__: notes are bin indices 0..35.
bins_per_octave == 36

\* scale_bins of a structure without the octave's repeat of the tonic, which
\* is no bin index.
scale_walk(structure) ==
    SelectSeq(structure.scale_bins, LAMBDA note : note < bins_per_octave)

\* The structures whose scale the catalog spells out.
WithScale == {k \in DOMAIN MAQAM_STRUCTURE : "scale_bins" \in DOMAIN MAQAM_STRUCTURE[k]}

\* The notes of the freely built inputs of analyze_full_sequence: the pitch
\* classes of the scales of maqam Bayati, Hijaz and Saba.
ScaleNotes ==
    UNION {{scale_walk(MAQAM_STRUCTURE[k])[i] : i \in DOMAIN scale_walk(MAQAM_STRUCTURE[k])} :
              k \in {j \in WithScale : MAQAM_STRUCTURE[j].name \in {"Bayati", "Hijaz", "Saba"}}}

\* The caller appends a scale note, at or above the last one, to the input of
\* analyze_full_sequence.
ObserveScaleNote ==
    /\ pc = "input"
    /\ Len(sequence) < MaxSequenceLen
    /\ \E note \in ScaleNotes :
          /\ Len(sequence) > 0 => note >= sequence[Len(sequence)]
          /\ sequence' = Append(sequence, note)
    /\ UNCHANGED <<fusion_vars, timeline_vars>>
    /\ UNCHANGED <<jins_library, maqam_structure, tolerance, jins2_root,
                   jins1_arg, jins2_arg, pc, result>>
    /\ UNCHANGED <<brain_vars, file_vars, parallel_vars>>

\* The caller takes the ascending scale of a catalog maqam as the input.
ObserveScale ==
    /\ pc = "input"
    /\ sequence = <<>>
    /\ \E k \in WithScale : sequence' = scale_walk(maqam_structure[k])
    /\ UNCHANGED <<fusion_vars, timeline_vars>>
    /\ UNCHANGED <<jins_library, maqam_structure, tolerance, jins2_root,
                   jins1_arg, jins2_arg, pc, result>>
    /\ UNCHANGED <<brain_vars, file_vars, parallel_vars>>

\* analyze_full_sequence(sequence) is called and returns.
Call_analyze_full_sequence ==
    /\ pc = "input"
    /\ result' = analyze_full_sequence(sequence)
    /\ maqam_structure' = maqam_structure_after(maqam_structure, result')
    /\ pc' = "analyze_full_sequence"
    /\ UNCHANGED <<fusion_vars, timeline_vars>>
    /\ UNCHANGED <<jins_library, sequence, tolerance, jins2_root,
                   jins1_arg, jins2_arg>>
    /\ UNCHANGED <<brain_vars, file_vars, parallel_vars>>

NextAnalyze == ObserveScaleNote \/ ObserveScale \/ Call_analyze_full_sequence

SpecAnalyze == Init /\ [][NextAnalyze]_vars

(***************************************************************************)
(* analyze_full_sequence on held notes of the whole octave                 *)
(***************************************************************************)
\* Most held notes of an input.
MaxRuns == 2

\* The caller appends a note of the octave, at or above the last one, held
\* for two or three frames.
ObserveRun ==
    /\ pc = "input"
    /\ Len(sequence) <= (MaxRuns - 1) * MinJins1Len
    /\ \E note \in 0..(bins_per_octave - 1), frames \in {MinJins2Len, MinJins1Len} :
          /\ Len(sequence) > 0 => note >= sequence[Len(sequence)]
          /\ sequence' = sequence \o [i \in 1..frames |-> note]
    /\ UNCHANGED <<jins_library, maqam_structure, tolerance, jins2_root,
                   jins1_arg, jins2_arg, pc, result, fusion_vars, timeline_vars>>
    /\ UNCHANGED <<brain_vars, file_vars, parallel_vars>>

NextAnalyzeRuns == ObserveRun \/ Call_analyze_full_sequence

SpecAnalyzeRuns == Init /\ [][NextAnalyzeRuns]_vars

(***************************************************************************)
(* The symbolic analysis: match_jins, predict_maqam_from_jins and          *)
(* analyze_full_sequence of one analyzer, on the inputs of each            *)
(***************************************************************************)
\* Every note of the sequence is a scale note.
OnScale == \A i \in DOMAIN sequence : sequence[i] \in ScaleNotes

Symbolic_ObserveScaleNote == OnScale /\ ObserveScaleNote

Symbolic_predict_maqam_from_jins == sequence = <<>> /\ Call_predict_maqam_from_jins

NextSymbolic ==
    \/ ObserveNote
    \/ ObserveTemplate
    \/ ObserveScale
    \/ Symbolic_ObserveScaleNote
    \/ Call_match_jins
    \/ Symbolic_predict_maqam_from_jins
    \/ Call_analyze_full_sequence

SpecSymbolic == Init /\ [][NextSymbolic]_vars

(***************************************************************************)
(* Fusion: a caller hands a symbolic result and two score maps to          *)
(* _combine_predictions and _calculate_confidence                          *)
(***************************************************************************)
\* Most entries of a score map.
MaxScores == 2

\* The maqam names the trained models know.
MaqamLabels == {"Rast", "Hijaz", "Bayati"}

\* Values of MLPClassifier.predict_proba.
Probabilities == {0, ConfUnit \div 10, (9 * ConfUnit) \div 10, ConfUnit}

\* Values of the Markov log-likelihood.
LogLikelihoods == {0 - 5, 0 - 2, 0}

\* Confidences of a symbolic result that names a maqam.
SymbolicConfidences == {(2 * ConfUnit) \div 5, ConfUnit}

\* Results of analyze_full_sequence: the sentinel, and the structures of
\* Rast and Hijaz found at their boundary with some confidence.
SymbolicResults ==
    {UnknownResult} \cup
    {[maqam |-> MAQAM_STRUCTURE[k].name, jins1 |-> MAQAM_STRUCTURE[k].jins1,
      jins2 |-> MAQAM_STRUCTURE[k].jins2, confidence |-> c,
      family |-> MAQAM_STRUCTURE[k].family,
      jins2_root |-> MAQAM_STRUCTURE[k].jins2_root] :
        k \in {j \in DOMAIN MAQAM_STRUCTURE : MAQAM_STRUCTURE[j].name \in {"Rast", "Hijaz"}},
        c \in SymbolicConfidences}

\* analyze_full_sequence has produced the symbolic result.
ObserveSymbolic ==
    /\ pc = "input"
    /\ jins_result_arg = NoResult
    /\ \E r \in SymbolicResults : jins_result_arg' = r
    /\ UNCHANGED <<jins_library, maqam_structure, sequence, tolerance, jins2_root,
                   jins1_arg, jins2_arg, pc, result, markov_scores_arg,
                   mlp_scores_arg, timeline_vars>>
    /\ UNCHANGED <<brain_vars, file_vars, parallel_vars>>

\* The trained classifier reports one more class (an untrained one reports
\* none: predict_proba returns {}).
ObserveClassifierScore ==
    /\ pc = "input"
    /\ Len(mlp_scores_arg) < MaxScores
    /\ \E cls \in MaqamLabels \ dict_keys(mlp_scores_arg), prob \in Probabilities :
          mlp_scores_arg' = Append(mlp_scores_arg, [key |-> cls, value |-> prob])
    /\ UNCHANGED <<jins_library, maqam_structure, sequence, tolerance, jins2_root,
                   jins1_arg, jins2_arg, pc, result, jins_result_arg,
                   markov_scores_arg, timeline_vars>>
    /\ UNCHANGED <<brain_vars, file_vars, parallel_vars>>

\* One more Markov model scores the sequence.
ObserveTransitionScore ==
    /\ pc = "input"
    /\ Len(markov_scores_arg) < MaxScores
    /\ \E maqam \in MaqamLabels \ dict_keys(markov_scores_arg), score \in LogLikelihoods :
          markov_scores_arg' = Append(markov_scores_arg, [key |-> maqam, value |-> score])
    /\ UNCHANGED <<jins_library, maqam_structure, sequence, tolerance, jins2_root,
                   jins1_arg, jins2_arg, pc, result, jins_result_arg,
                   mlp_scores_arg, timeline_vars>>
    /\ UNCHANGED <<brain_vars, file_vars, parallel_vars>>

\* best_maqam = self._combine_predictions(...) and then
\* confidence = self._calculate_confidence(..., best_maqam).
Call_fusion ==
    /\ pc = "input"
    /\ jins_result_arg # NoResult
    /\ LET best_maqam == _combine_predictions(jins_result_arg, markov_scores_arg,
                                              mlp_scores_arg)
       IN  result' = [prediction |-> best_maqam,
                      confidence |-> _calculate_confidence(jins_result_arg,
                                         markov_scores_arg, mlp_scores_arg, best_maqam)]
    /\ pc' = "fusion"
    /\ UNCHANGED <<jins_library, maqam_structure, sequence, tolerance, jins2_root,
                   jins1_arg, jins2_arg, fusion_vars, timeline_vars>>
    /\ UNCHANGED <<brain_vars, file_vars, parallel_vars>>

NextFusion ==
    ObserveSymbolic \/ ObserveClassifierScore \/ ObserveTransitionScore \/ Call_fusion

SpecFusion == Init /\ [][NextFusion]_vars

(***************************************************************************)
(* predict: a caller builds a note sequence and calls predict, the trained *)
(* models supplying the two score maps                                     *)
(***************************************************************************)
\* Longest freely built input of predict (scale inputs may be longer).
MaxPredictLen == 5

\* The notes a free input of predict is built from: the scale of maqam Bayati.
PredictNotes ==
    LET k == CHOOSE j \in DOMAIN MAQAM_STRUCTURE : MAQAM_STRUCTURE[j].name = "Bayati"
        walk == scale_walk(MAQAM_STRUCTURE[k])
    IN  {walk[i] : i \in DOMAIN walk}

\* What predict_proba returns: nothing when the classifier is untrained, else
\* a probability per class.
PredictClassifierMaps ==
    {<<>>,
     <<[key |-> "Rast", value |-> ConfUnit]>>,
     <<[key |-> "Rast", value |-> 0]>>,
     <<[key |-> "Bayati", value |-> (9 * ConfUnit) \div 10],
       [key |-> "Rast", value |-> ConfUnit \div 10]>>,
     <<[key |-> "Rast", value |-> ConfUnit \div 2],
       [key |-> "Bayati", value |-> ConfUnit \div 2]>>}

\* The log-likelihoods of the Markov models: none, one or several models.
PredictTransitionMaps ==
    {<<>>,
     <<[key |-> "Rast", value |-> 0 - 2]>>,
     <<[key |-> "Rast", value |-> 0 - 2], [key |-> "Hijaz", value |-> 0 - 5]>>,
     <<[key |-> "Bayati", value |-> 0 - 5], [key |-> "Rast", value |-> 0 - 5]>>,
     <<[key |-> "Hijaz", value |-> 0 - 5], [key |-> "Bayati", value |-> 0],
       [key |-> "Rast", value |-> 0 - 2]>>}

\* The caller appends one more note of the Bayati scale, at or above the
\* last one, to the input of predict.
ObservePredictNote ==
    /\ pc = "input"
    /\ Len(sequence) < MaxPredictLen
    /\ \E note \in PredictNotes :
          /\ Len(sequence) > 0 => note >= sequence[Len(sequence)]
          /\ sequence' = Append(sequence, note)
    /\ UNCHANGED <<jins_library, maqam_structure, tolerance, jins2_root,
                   jins1_arg, jins2_arg, pc, result, fusion_vars, timeline_vars>>
    /\ UNCHANGED <<brain_vars, file_vars, parallel_vars>>

\* predict(sequence) is called and returns.
Call_predict ==
    /\ pc = "input"
    /\ \E markov_scores \in PredictTransitionMaps, mlp_scores \in PredictClassifierMaps :
          /\ markov_scores_arg' = markov_scores
          /\ mlp_scores_arg' = mlp_scores
          /\ result' = predict(sequence, markov_scores, mlp_scores)
    /\ maqam_structure' = maqam_structure_after(maqam_structure,
                                                analyze_full_sequence(sequence))
    /\ pc' = "predict"
    /\ UNCHANGED <<jins_library, sequence, tolerance, jins2_root,
                   jins1_arg, jins2_arg, jins_result_arg, timeline_vars>>
    /\ UNCHANGED <<brain_vars, file_vars, parallel_vars>>

NextPredict == ObservePredictNote \/ ObserveScale \/ Call_predict

SpecPredict == Init /\ [][NextPredict]_vars

(***************************************************************************)
(* predict_timeline: the scan of a chromagram, one window per step         *)
(*                                                                         *)
(* The chromagram's content and the trained models are not modelled: what  *)
(* predict returns on a window is drawn from WindowResults.                *)
(***************************************************************************)
\* Most frames of a chromagram.
MaxFrames == 8

\* Longest window and longest hop, in half seconds.
MaxWindowHalfSeconds == 6
MaxHopHalfSeconds == 4

\* Most windows a scan is followed for.
MaxWindows == 4

\* Sample rates of one and of two frames per second.
SampleRates == {hop_length, 2 * hop_length}

\* Results of predict on a window.
WindowResults ==
    {[prediction |-> "Bayati",
      jins_analysis |-> [jins1 |-> "Bayati", jins2 |-> "Nahawand",
                         jins_confidence |-> ConfOne, jins2_root |-> 15],
      markov_scores |-> <<>>, mlp_scores |-> <<>>, confidence |-> ConfOne],
     [prediction |-> "Rast",
      jins_analysis |-> [jins1 |-> "Rast", jins2 |-> "Unknown",
                         jins_confidence |-> ConfUnit \div 2, jins2_root |-> 21],
      markov_scores |-> <<>>, mlp_scores |-> <<>>, confidence |-> ConfUnit \div 2],
     [prediction |-> "Unknown",
      jins_analysis |-> [jins1 |-> "Unknown", jins2 |-> "Unknown",
                         jins_confidence |-> 0, jins2_root |-> DefaultJins2Root],
      markov_scores |-> <<>>, mlp_scores |-> <<>>, confidence |-> 0]}

\* predict_timeline(full_chromagram, window_seconds, hop_seconds, sr) is
\* called: the frame sizes are computed and the scan starts at frame 0.
Call_predict_timeline ==
    /\ pc = "input"
    /\ \E frames \in 0..MaxFrames, window \in 1..MaxWindowHalfSeconds,
          hop \in 1..MaxHopHalfSeconds, rate \in SampleRates :
          /\ sr' = rate
          /\ window_seconds' = window
          /\ hop_seconds' = hop
          /\ total_frames' = frames
          /\ window_frames' = frames_of(window, rate)
          /\ hop_frames' = frames_of(hop, rate)
    /\ start_frame' = 0
    /\ timeline' = <<>>
    /\ maqam_counts' = <<>>
    /\ pc' = "timeline_scan"
    /\ UNCHANGED <<jins_library, maqam_structure, sequence, tolerance, jins2_root,
                   jins1_arg, jins2_arg, result, fusion_vars>>
    /\ UNCHANGED <<brain_vars, file_vars, parallel_vars>>

\* One pass of the while loop that emits a window.
Timeline_window ==
    /\ pc = "timeline_scan"
    /\ Len(timeline) < MaxWindows
    /\ start_frame < total_frames
    /\ LET end_frame == end_frame_of(start_frame, window_frames, total_frames)
       IN  /\ ~too_small(start_frame, end_frame, window_frames)
           /\ \E window_result \in WindowResults :
                 /\ timeline' = Append(timeline,
                                       timeline_entry(start_frame, end_frame, sr,
                                                      window_result))
                 /\ maqam_counts' = count_maqam(maqam_counts, window_result.prediction)
    /\ start_frame' = start_frame + hop_frames
    /\ UNCHANGED <<jins_library, maqam_structure, sequence, tolerance, jins2_root,
                   jins1_arg, jins2_arg, pc, result, fusion_vars, sr, window_seconds,
                   hop_seconds, total_frames, window_frames, hop_frames>>
    /\ UNCHANGED <<brain_vars, file_vars, parallel_vars>>

\* The loop ends, by its condition or by the break, and the result is built.
Timeline_return ==
    /\ pc = "timeline_scan"
    /\ \/ ~(start_frame < total_frames)
       \/ too_small(start_frame,
                    end_frame_of(start_frame, window_frames, total_frames),
                    window_frames)
    /\ result' = [timeline |-> timeline,
                  modulations |-> modulations_from(timeline, 2),
                  dominant_maqam |-> dominant_of(maqam_counts),
                  total_segments |-> Len(timeline),
                  window_seconds |-> window_seconds,
                  hop_seconds |-> hop_seconds]
    /\ pc' = "predict_timeline"
    /\ UNCHANGED <<jins_library, maqam_structure, sequence, tolerance, jins2_root,
                   jins1_arg, jins2_arg, fusion_vars, timeline_vars>>
    /\ UNCHANGED <<brain_vars, file_vars, parallel_vars>>

NextTimeline == Call_predict_timeline \/ Timeline_window \/ Timeline_return

SpecTimeline == Init /\ [][NextTimeline]_vars

(***************************************************************************)
(* predict_timeline as a running loop                                      *)
(*                                                                         *)
(* A call that has started keeps running: a pass of the loop that can be   *)
(* taken is taken, however many passes were taken before, and the return   *)
(* is reached when the loop has ended.  The chromagram has MaxWindows      *)
(* frames at most, so that a scan that advances by a frame or more per     *)
(* pass has MaxWindows windows at most; of a longer timeline the latest    *)
(* MaxWindows entries are kept, and the counts of the first MaxWindows.    *)
(***************************************************************************)
Call_short_timeline == Call_predict_timeline /\ total_frames' <= MaxWindows

\* timeline.append(entry), the latest MaxWindows entries being kept.
append_latest(windows, entry) ==
    IF Len(windows) < MaxWindows THEN Append(windows, entry)
    ELSE Append(Tail(windows), entry)

\* One pass of the while loop that emits a window.
Timeline_pass ==
    /\ pc = "timeline_scan"
    /\ start_frame < total_frames
    /\ LET end_frame == end_frame_of(start_frame, window_frames, total_frames)
       IN  /\ ~too_small(start_frame, end_frame, window_frames)
           /\ \E window_result \in WindowResults :
                 /\ timeline' = append_latest(timeline,
                                              timeline_entry(start_frame, end_frame, sr,
                                                             window_result))
                 /\ maqam_counts' = IF Len(timeline) < MaxWindows
                                     THEN count_maqam(maqam_counts, window_result.prediction)
                                     ELSE maqam_counts
    /\ start_frame' = start_frame + hop_frames
    /\ UNCHANGED <<jins_library, maqam_structure, sequence, tolerance, jins2_root,
                   jins1_arg, jins2_arg, pc, result, fusion_vars, sr, window_seconds,
                   hop_seconds, total_frames, window_frames, hop_frames>>
    /\ UNCHANGED <<brain_vars, file_vars, parallel_vars>>

NextTimelineFair == Call_short_timeline \/ Timeline_pass \/ Timeline_return

SpecTimelineFair ==
    /\ Init
    /\ [][NextTimelineFair]_vars
    /\ WF_vars(Timeline_pass)
    /\ WF_vars(Timeline_return)

(***************************************************************************)
(* A session: one analyzer and one brain serve call after call             *)
(*                                                                         *)
(* The catalog is built once, in JinsAnalyzer.__init__, and every later    *)
(* call reads the same two dicts.  A caller prepares the input of one      *)
(* call at a time: a note sequence, or the arguments of the fusion step,   *)
(* or nothing for calls that take literal arguments.                       *)
(***************************************************************************)
\* No note sequence is being prepared.
SeqPristine == sequence = <<>>

\* No argument of the fusion step is being prepared.
FusionPristine ==
    /\ jins_result_arg = NoResult
    /\ markov_scores_arg = <<>>
    /\ mlp_scores_arg = <<>>

Session_ObserveTemplate == FusionPristine /\ ObserveTemplate

Session_ObserveScale == FusionPristine /\ ObserveScale

Session_ObservePredictNote == FusionPristine /\ ObservePredictNote

Session_match_jins == FusionPristine /\ Call_match_jins

Session_segment_into_jins == FusionPristine /\ Call_segment_into_jins

Session_analyze_full_sequence == FusionPristine /\ Call_analyze_full_sequence

Session_predict == FusionPristine /\ Call_predict

Session_predict_maqam_from_jins ==
    SeqPristine /\ FusionPristine /\ Call_predict_maqam_from_jins

Session_ObserveSymbolic == SeqPristine /\ ObserveSymbolic

Session_ObserveClassifierScore == SeqPristine /\ ObserveClassifierScore

Session_ObserveTransitionScore == SeqPristine /\ ObserveTransitionScore

Session_fusion == SeqPristine /\ Call_fusion

Session_predict_timeline == SeqPristine /\ FusionPristine /\ Call_predict_timeline

\* The caller has the result of a call and turns to the next call: what it
\* prepared for the last one is dropped, the analyzer's catalog stays.
Return ==
    /\ pc \notin {"input", "timeline_scan", "windows"}
    /\ pc' = "input"
    /\ sequence' = <<>>
    /\ tolerance' = DefaultTolerance
    /\ jins2_root' = 0
    /\ jins1_arg' = NoMatch
    /\ jins2_arg' = NoMatch
    /\ result' = NoResult
    /\ jins_result_arg' = NoResult
    /\ markov_scores_arg' = <<>>
    /\ mlp_scores_arg' = <<>>
    /\ sr' = 0
    /\ window_seconds' = 0
    /\ hop_seconds' = 0
    /\ total_frames' = 0
    /\ window_frames' = 0
    /\ hop_frames' = 0
    /\ start_frame' = 0
    /\ timeline' = <<>>
    /\ maqam_counts' = <<>>
    /\ track' = <<>>
    /\ pending' = {}
    /\ window_results' = {}
    /\ UNCHANGED <<jins_library, maqam_structure, brain_vars, file_vars>>

NextSession ==
    \/ Session_ObserveTemplate
    \/ Session_ObserveScale
    \/ Session_ObservePredictNote
    \/ Session_match_jins
    \/ Session_segment_into_jins
    \/ Session_analyze_full_sequence
    \/ Session_predict
    \/ Session_predict_maqam_from_jins
    \/ Session_ObserveSymbolic
    \/ Session_ObserveClassifierScore
    \/ Session_ObserveTransitionScore
    \/ Session_fusion
    \/ Session_predict_timeline
    \/ Timeline_window
    \/ Timeline_return
    \/ Return

SpecSession == Init /\ [][NextSession]_vars

(***************************************************************************)
(* The brain's own models (src/src/MaqamBrain.py)                          *)
(*                                                                         *)
(* markov_models is a dict from maqam name to a 36x36 matrix: a sequence   *)
(* of [key, value] records in insertion order.  A matrix is held as the    *)
(* set of the transitions <<curr, nxt>> it gives probability 1, every      *)
(* other transition having probability 0.                                  *)
(***************************************************************************)
\* The transitions of a note sequence.
transitions_of(note_sequence) ==
    {<<note_sequence[i], note_sequence[i + 1]>> : i \in 1..(Len(note_sequence) - 1)}

\* min(int(sequence[i]), self.bins_per_octave - 1)
clip(note) == IF note < bins_per_octave - 1 THEN note ELSE bins_per_octave - 1

\* log_likelihood += np.log(p + 1e-9) over the transitions of the sequence:
\* a transition of the matrix adds log(1 + 1e-9), any other adds log(1e-9).
\* Counted in units of log(1 + 1e-9) - log(1e-9) below the score of a
\* sequence that stays in the matrix, which the min-max normalisation and
\* the arg-max do not tell from the float.
log_likelihood(matrix, note_sequence) ==
    0 - Cardinality({i \in 1..(Len(note_sequence) - 1) :
                        <<clip(note_sequence[i]), clip(note_sequence[i + 1])>> \notin matrix})

\* markov_scores after "for name, matrix in self.markov_models.items()".
markov_scores_of(models, note_sequence) ==
    [k \in DOMAIN models |->
        [key |-> models[k].key, value |-> log_likelihood(models[k].value, note_sequence)]]

\* hasattr(self.model, 'coefs_')
is_trained(classifier) == classifier.fitted

\* d[key] = value on a dict in insertion order.
dict_set(d, key, value) ==
    IF key \in dict_keys(d)
    THEN [i \in DOMAIN d |-> IF d[i].key = key THEN [key |-> key, value |-> value] ELSE d[i]]
    ELSE Append(d, [key |-> key, value |-> value])

\* Mutant of markov_models_after_predict: predict keeps the transitions of
\* the sequence as the model of the maqam it predicted.
markov_models_learning(models, note_sequence, prediction) ==
    dict_set(models, prediction, transitions_of(note_sequence))

\* self.markov_models once predict has returned: predict reads the dict in
\* "for name, matrix in self.markov_models.items()" and assigns nothing to
\* self.
markov_models_after_predict(models, note_sequence, prediction) == models

\* self.predict(sequence) of a brain whose classifier is not fitted:
\* predict_proba returns {}.
brain_predict(models, note_sequence) ==
    predict(note_sequence, markov_scores_of(models, note_sequence), <<>>)

\* "for name, matrix_list in data.items(): self.markov_models[name] = ..."
\* from entry k of the file's dict on; nothing is done without the file.
RECURSIVE load_models(_, _, _)
load_models(models, data, k) ==
    IF k > Len(data) THEN models
    ELSE load_models(dict_set(models, data[k].key, data[k].value), data, k + 1)

_load_markov_models(models, file) ==
    IF file = NoFile THEN models ELSE load_models(models, file.data, 1)

(***************************************************************************)
(* predict_timeline, its windows predicted in any order                    *)
(*                                                                         *)
(* The loop of predict_timeline handles the windows from the first to the  *)
(* last.  Here the body of the loop runs once per window, in any order,    *)
(* and the entries are put in the order of their start times at the end.   *)
(***************************************************************************)
\* The window of frames [start, end) as predict gets it.
window_of(chroma_track, start, end) ==
    IF end > start THEN SubSeq(chroma_track, start + 1, end) ELSE <<>>

\* The timeline of the while loop from start_frame = start on, the brain
\* holding models when the window at start is predicted.
RECURSIVE scan_timeline(_, _, _, _, _, _)
scan_timeline(chroma_track, start, window, hop, rate, models) ==
    LET total == Len(chroma_track)
        end == end_frame_of(start, window, total)
    IN  IF ~(start < total) \/ too_small(start, end, window) THEN <<>>
        ELSE LET note_sequence == window_of(chroma_track, start, end)
                 window_result == brain_predict(models, note_sequence)
             IN  <<timeline_entry(start, end, rate, window_result)>>
                 \o scan_timeline(chroma_track, start + hop, window, hop, rate,
                                  markov_models_after_predict(models, note_sequence,
                                                              window_result.prediction))

\* The start frames the while loop passes from start_frame = start on.
RECURSIVE window_starts(_, _, _, _)
window_starts(total, start, window, hop) ==
    IF ~(start < total) \/ too_small(start, end_frame_of(start, window, total), window)
    THEN {}
    ELSE {start} \cup window_starts(total, start + hop, window, hop)

\* The entries in the order of their start times.
RECURSIVE sorted_by_start_time(_)
sorted_by_start_time(entries) ==
    IF entries = {} THEN <<>>
    ELSE LET first == CHOOSE e \in entries :
                          \A other \in entries : e.start_time <= other.start_time
         IN  <<first>> \o sorted_by_start_time(entries \ {first})

\* A recording that walks up the scale of a catalog maqam and starts again
\* on the tonic, cut after so many frames.
Tracks ==
    {SubSeq(scale_walk(MAQAM_STRUCTURE[k]) \o scale_walk(MAQAM_STRUCTURE[k]), 1, n) :
        k \in {j \in WithScale : MAQAM_STRUCTURE[j].name \in {"Bayati", "Hijaz", "Saba"}},
        n \in {MaxFrames - 1, MaxFrames}}

\* The model of a maqam that has the transitions of its ascending scale.
scale_model(maqam) ==
    LET k == CHOOSE j \in WithScale : MAQAM_STRUCTURE[j].name = maqam
    IN  [key |-> maqam, value |-> transitions_of(scale_walk(MAQAM_STRUCTURE[k]))]

\* Contents of maqam_database_hybrid.json a server may start with.
ModelFiles ==
    {[data |-> <<scale_model("Hijaz")>>],
     [data |-> <<scale_model("Bayati"), scale_model("Saba")>>]}

\* The server starts with a model file in place: brain = MaqamBrain(...)
\* loads it into the new brain's markov_models.
Start_with_models ==
    /\ pc = "input"
    /\ maqam_db_file = NoFile
    /\ \E file \in ModelFiles :
          /\ maqam_db_file' = file
          /\ markov_models' = _load_markov_models(<<>>, file)
    /\ UNCHANGED <<jins_library, maqam_structure, sequence, tolerance, jins2_root,
                   jins1_arg, jins2_arg, pc, result, fusion_vars, timeline_vars,
                   jins_models, mlp, jins_db_file, mlp_file, parallel_vars>>

\* predict_timeline is called with a hop of one frame or more: the frame
\* sizes are computed and every window of the scan is due.
Call_windows ==
    /\ pc = "input"
    /\ \E chroma_track \in Tracks, window \in 1..MaxWindowHalfSeconds,
          hop \in 1..MaxHopHalfSeconds, rate \in SampleRates :
          /\ frames_of(hop, rate) >= 1
          /\ track' = chroma_track
          /\ sr' = rate
          /\ window_seconds' = window
          /\ hop_seconds' = hop
          /\ total_frames' = Len(chroma_track)
          /\ window_frames' = frames_of(window, rate)
          /\ hop_frames' = frames_of(hop, rate)
          /\ pending' = window_starts(Len(chroma_track), 0, frames_of(window, rate),
                                      frames_of(hop, rate))
    /\ window_results' = {}
    /\ pc' = "windows"
    /\ UNCHANGED <<jins_library, maqam_structure, sequence, tolerance, jins2_root,
                   jins1_arg, jins2_arg, result, fusion_vars, start_frame, timeline,
                   maqam_counts, brain_vars, file_vars>>

\* The body of the loop runs for one of the windows that are due.
Predict_window ==
    /\ pc = "windows"
    /\ \E start \in pending :
          LET end == end_frame_of(start, window_frames, total_frames)
              note_sequence == window_of(track, start, end)
              window_result == brain_predict(markov_models, note_sequence)
          IN  /\ window_results' = window_results \cup
                                      {timeline_entry(start, end, sr, window_result)}
              /\ markov_models' = markov_models_after_predict(markov_models, note_sequence,
                                                              window_result.prediction)
              /\ pending' = pending \ {start}
    /\ UNCHANGED <<jins_library, maqam_structure, sequence, tolerance, jins2_root,
                   jins1_arg, jins2_arg, pc, result, fusion_vars, timeline_vars,
                   jins_models, mlp, file_vars, track>>

\* Every window is predicted: the entries are sorted by start time and the
\* modulation events are derived.
Windows_return ==
    /\ pc = "windows"
    /\ pending = {}
    /\ LET windows == sorted_by_start_time(window_results)
       IN  result' = [timeline |-> windows,
                      modulations |-> modulations_from(windows, 2),
                      total_segments |-> Len(windows),
                      window_seconds |-> window_seconds,
                      hop_seconds |-> hop_seconds]
    /\ pc' = "windows_done"
    /\ UNCHANGED <<jins_library, maqam_structure, sequence, tolerance, jins2_root,
                   jins1_arg, jins2_arg, fusion_vars, timeline_vars, brain_vars,
                   file_vars, parallel_vars>>

NextWindows == Start_with_models \/ Call_windows \/ Predict_window \/ Windows_return

SpecWindows == Init /\ [][NextWindows]_vars

(***************************************************************************)
(* Training: POST /train (src/src/api.py, src/src/MaqamTrainer.py)         *)
(*                                                                         *)
(* The audio of the data folders is not modelled: the recordings of a      *)
(* folder are one note sequence, and a matrix of counts is held as the set *)
(* of the transitions counted at least once.  A model file is NoFile or a  *)
(* record with the dict that was dumped; a fitted classifier is known by   *)
(* its classes.                                                            *)
(***************************************************************************)
\* The folders of data/ that hold audio, in the order of data_dir.iterdir():
\* two maqamat of the catalog and one the catalog does not have.
DataFolders == <<"Bayati", "Hijaz", "Ussak">>

\* The note sequence the recordings of a folder are normalised to.
recording_of(maqam_name) ==
    IF maqam_name \in {MAQAM_STRUCTURE[k].name : k \in WithScale}
    THEN scale_walk(MAQAM_STRUCTURE[CHOOSE k \in WithScale :
                                        MAQAM_STRUCTURE[k].name = maqam_name])
    ELSE <<0, 5, 9, 15, 21, 24>>

\* MaqamTrainer.__init__
NewTrainer == [markov_counts |-> <<>>, jins_counts |-> <<>>, y_train |-> <<>>]

\* counts[name][idx_curr, idx_next] += 1 over the transitions of a sequence,
\* counts[name] being created when the name is new.
count_transitions(counts, name, note_sequence) ==
    LET seen == IF name \in dict_keys(counts) THEN dict_item(counts, name) ELSE {}
        wrapped == [i \in DOMAIN note_sequence |-> note_sequence[i] % bins_per_octave]
    IN  dict_set(counts, name, seen \cup transitions_of(wrapped))

\* MAQAM_STRUCTURE.get(maqam_name, None)
structure_of(maqam_name) ==
    IF \E k \in DOMAIN MAQAM_STRUCTURE : MAQAM_STRUCTURE[k].name = maqam_name
    THEN MAQAM_STRUCTURE[CHOOSE k \in DOMAIN MAQAM_STRUCTURE :
                             MAQAM_STRUCTURE[k].name = maqam_name]
    ELSE NoResult

\* MaqamTrainer.train_on_folder on a folder with audio.
train_on_folder(trainer, maqam_name) ==
    LET note_sequence == recording_of(maqam_name)
        maqam_struct == structure_of(maqam_name)
        regions == segment_into_jins(note_sequence,
                                     DictGet(maqam_struct, "jins2_root", DefaultJins2Root))
    IN  [markov_counts |-> count_transitions(trainer.markov_counts, maqam_name, note_sequence),
         jins_counts |->
             IF maqam_struct = NoResult THEN trainer.jins_counts
             ELSE count_transitions(
                      count_transitions(trainer.jins_counts, maqam_struct.jins1, regions[1]),
                      maqam_struct.jins2, regions[2]),
         y_train |-> Append(trainer.y_train, maqam_name)]

\* The trainer after train_on_folder on the folders from index k on.
RECURSIVE train_on_folders(_, _, _)
train_on_folders(trainer, folders, k) ==
    IF k > Len(folders) THEN trainer
    ELSE train_on_folders(train_on_folder(trainer, folders[k]), folders, k + 1)

\* mlp.train(self.X_train, self.y_train): the fitted classifier, which is
\* also what is pickled to the model file.
trained_classifier(y_train) ==
    [classes_ |-> {y_train[i] : i \in DOMAIN y_train}, fitted |-> TRUE]

\* The three files after finalize_and_save: the maqam file is always
\* written, the jins file only "if self.jins_counts", the classifier only
\* "if self.X_train".
finalize_and_save(trainer, files) ==
    [maqam_db |-> [data |-> trainer.markov_counts],
     jins_db |-> IF trainer.jins_counts # <<>> THEN [data |-> trainer.jins_counts]
                 ELSE files.jins_db,
     mlp |-> IF trainer.y_train # <<>> THEN [model |-> trained_classifier(trainer.y_train)]
             ELSE files.mlp]

\* MaqamBrain._load_jins_models: as _load_markov_models, on jins_db_path.
_load_jins_models(models, file) ==
    IF file = NoFile THEN models ELSE load_models(models, file.data, 1)

\* The maqam_name arguments of a request: none, a folder of data/, or a name
\* without a folder.
TrainArguments == {None, "Saba"} \cup {DataFolders[i] : i \in DOMAIN DataFolders}

\* The folders a request trains on.
trained_maqamat_of(maqam_name) ==
    IF maqam_name = None THEN DataFolders ELSE <<maqam_name>>

\* POST /train: a new trainer is trained on one folder or on all of them,
\* the models are saved, and the brain reloads its two Markov dicts.
Train ==
    /\ pc = "input"
    /\ \E maqam_name \in TrainArguments :
          IF maqam_name # None /\ maqam_name \notin {DataFolders[i] : i \in DOMAIN DataFolders}
          THEN /\ result' = [status_code |-> 404,
                             error |-> "No training data found for " \o maqam_name]
               /\ UNCHANGED <<brain_vars, file_vars>>
          ELSE LET trained_maqamat == trained_maqamat_of(maqam_name)
                   trainer == train_on_folders(NewTrainer, trained_maqamat, 1)
                   files == finalize_and_save(trainer,
                                [maqam_db |-> maqam_db_file, jins_db |-> jins_db_file,
                                 mlp |-> mlp_file])
               IN  /\ maqam_db_file' = files.maqam_db
                   /\ jins_db_file' = files.jins_db
                   /\ mlp_file' = files.mlp
                   /\ markov_models' = _load_markov_models(markov_models, files.maqam_db)
                   /\ jins_models' = _load_jins_models(jins_models, files.jins_db)
                   /\ mlp' = mlp
                   /\ result' = [status |-> "success",
                                  trained_maqamat |-> trained_maqamat]
    /\ pc' = "train"
    /\ UNCHANGED <<jins_library, maqam_structure, sequence, tolerance, jins2_root,
                   jins1_arg, jins2_arg, fusion_vars, timeline_vars, parallel_vars>>

\* The server is started again: brain = MaqamBrain(...) builds a new brain
\* from the model files.
Restart ==
    /\ pc = "input"
    /\ markov_models' = _load_markov_models(<<>>, maqam_db_file)
    /\ jins_models' = _load_jins_models(<<>>, jins_db_file)
    /\ mlp' = IF mlp_file = NoFile THEN NewClassifier ELSE mlp_file.model
    /\ UNCHANGED <<jins_library, maqam_structure, sequence, tolerance, jins2_root,
                   jins1_arg, jins2_arg, pc, result, fusion_vars, timeline_vars,
                   file_vars, parallel_vars>>

NextTrain == Train \/ Restart \/ Return

SpecTrain == Init /\ [][NextTrain]_vars

(***************************************************************************)
(* Claims about match_jins (specification SpecMatch)                       *)
(***************************************************************************)
\* The claims' own reading of the score, independent of the loops above:
\* the template offsets (by position) that have an observed position of the
\* input within tol bins.
CoveredOffsets(template, notes, tol) ==
    {i \in DOMAIN template :
        \E j \in DOMAIN notes : abs(notes[j] - template[i]) <= tol}

Coverage(k, notes, tol) ==
    (Cardinality(CoveredOffsets(JINS_LIBRARY[k].intervals_bins, notes, tol)) * ConfUnit)
        \div Len(JINS_LIBRARY[k].intervals_bins)

BestCoverage(notes, tol) ==
    LET all == {Coverage(k, notes, tol) : k \in DOMAIN JINS_LIBRARY}
    IN  CHOOSE c \in all : \A d \in all : d <= c

MatchReturned == pc = "match_jins"

DistinctPositions == Cardinality({sequence[i] : i \in DOMAIN sequence})

\* C2: called with the default tolerance on exactly a template's
\* intervals_bins, match_jins returns that template's own name with
\* confidence 1.0.
C2_TemplateMatchesItself ==
    (MatchReturned /\ tolerance = DefaultTolerance) =>
        \A k \in DOMAIN JINS_LIBRARY :
            sequence = JINS_LIBRARY[k].intervals_bins =>
                /\ result.jins = JINS_LIBRARY[k].name
                /\ result.confidence = ConfOne

\* C3: match_jins returns Unknown with confidence 0.0 for every input with
\* fewer than 3 distinct positions, repeats included.
C3_FewDistinctIsUnknown ==
    (MatchReturned /\ DistinctPositions < 3) =>
        result = [jins |-> "Unknown", confidence |-> 0]

\* C4: for every input that passes the length check the confidence is the
\* maximum over the catalog templates of covered offsets / template length,
\* each offset counting once, and so lies in [0,1].
C4_ConfidenceIsBestCoverage ==
    (MatchReturned /\ Len(sequence) >= 3) =>
        /\ result.confidence = BestCoverage(sequence, tolerance)
        /\ 0 <= result.confidence
        /\ result.confidence <= ConfOne

\* C4 witness: an offset is covered by two observed positions, another
\* observed position is near no offset of the winning template, and the
\* confidence is strictly between 0 and 1.
C4_Witness ==
    /\ MatchReturned
    /\ Len(sequence) >= 3
    /\ tolerance = DefaultTolerance
    /\ 0 < result.confidence
    /\ result.confidence < ConfOne
    /\ \E k \in DOMAIN JINS_LIBRARY :
          LET t == JINS_LIBRARY[k].intervals_bins
          IN  /\ JINS_LIBRARY[k].name = result.jins
              /\ \E i \in DOMAIN t : \E a, b \in DOMAIN sequence :
                    /\ sequence[a] # sequence[b]
                    /\ abs(sequence[a] - t[i]) <= tolerance
                    /\ abs(sequence[b] - t[i]) <= tolerance
              /\ \E a \in DOMAIN sequence : \A i \in DOMAIN t :
                    abs(sequence[a] - t[i]) > tolerance

\* C5: among the templates that attain the maximum positive score the one
\* that comes first in catalog order is returned.
C5_FirstBestWins ==
    (MatchReturned /\ Len(sequence) >= 3 /\ BestCoverage(sequence, tolerance) > 0) =>
        \E k \in DOMAIN JINS_LIBRARY :
            /\ result.jins = JINS_LIBRARY[k].name
            /\ Coverage(k, sequence, tolerance) = BestCoverage(sequence, tolerance)
            /\ \A j \in 1..(k - 1) :
                  Coverage(j, sequence, tolerance) < BestCoverage(sequence, tolerance)

\* C5 witness: three templates with different offsets tie at the maximum and
\* the result is the first of them.
C5_Witness ==
    /\ MatchReturned
    /\ Len(sequence) >= 3
    /\ result.confidence > 0
    /\ \E j, k \in DOMAIN JINS_LIBRARY :
          /\ j < k
          /\ JINS_LIBRARY[j].intervals_bins # JINS_LIBRARY[k].intervals_bins
          /\ result.jins = JINS_LIBRARY[j].name
          /\ Coverage(j, sequence, tolerance) = result.confidence
          /\ Coverage(k, sequence, tolerance) = result.confidence

(***************************************************************************)
(* Claims about segment_into_jins (specification SpecSegment)              *)
(***************************************************************************)
SegmentReturned == pc = "segment_into_jins"

\* How often v occurs in s.
Occurrences(s, v) == Cardinality({i \in DOMAIN s : s[i] = v})

\* The elements of seq below b, in seq's order.
Below(seq, b) == SelectSeq(seq, LAMBDA x : x < b)

\* The elements of seq at or above b, in seq's order, each reduced by b.
AtOrAbove(seq, b) ==
    LET kept == SelectSeq(seq, LAMBDA x : x >= b)
    IN  [i \in 1..Len(kept) |-> kept[i] - b]

\* C6: segment_into_jins(seq, b) is a lossless, order-preserving partition:
\* lower is the subsequence of the elements < b, upper the subsequence of the
\* elements >= b each reduced by b, lower with upper shifted back by b is the
\* multiset seq, b = 0 gives an empty lower region and b above every element
\* an empty upper region.
C6_SegmentIsPartition ==
    SegmentReturned =>
        LET lower == result[1]
            upper == result[2]
        IN  /\ lower = Below(sequence, jins2_root)
            /\ upper = AtOrAbove(sequence, jins2_root)
            /\ Len(lower) + Len(upper) = Len(sequence)
            /\ \A v \in 0..MaxSegmentNote :
                  Occurrences(sequence, v)
                      = Occurrences(lower, v) + Occurrences(upper, v - jins2_root)
            /\ jins2_root = 0 => lower = <<>>
            /\ (\A i \in DOMAIN sequence : sequence[i] < jins2_root) => upper = <<>>

\* C6 witness: both regions are non-empty, the input is not sorted, a note
\* repeats and a note equal to the boundary went to the upper region as 0.
C6_Witness ==
    /\ SegmentReturned
    /\ Len(result[1]) >= 2
    /\ Len(result[2]) >= 2
    /\ \E i \in DOMAIN sequence : sequence[i] = jins2_root
    /\ \E i, j \in DOMAIN sequence : i < j /\ sequence[i] > sequence[j]
    /\ \E i, j \in DOMAIN sequence : i < j /\ sequence[i] = sequence[j]
    /\ \E i \in DOMAIN result[2] : result[2][i] = 0

(***************************************************************************)
(* Claims about predict_maqam_from_jins (specification SpecInfer)          *)
(***************************************************************************)
InferReturned == pc = "predict_maqam_from_jins"

\* Structure k has the matched jins1 and the matched jins2 as its jins2.
MatchesExactly(k) ==
    /\ MAQAM_STRUCTURE[k].jins1 = jins1_arg.jins
    /\ MAQAM_STRUCTURE[k].jins2 = jins2_arg.jins

\* Structure k has the matched jins1 and the matched jins2 as its alt_jins2.
MatchesAlternate(k) ==
    /\ MAQAM_STRUCTURE[k].jins1 = jins1_arg.jins
    /\ "alt_jins2" \in DOMAIN MAQAM_STRUCTURE[k]
    /\ MAQAM_STRUCTURE[k].alt_jins2 = jins2_arg.jins

Matching == {k \in DOMAIN MAQAM_STRUCTURE : MatchesExactly(k) \/ MatchesAlternate(k)}

FirstMatching == CHOOSE k \in Matching : \A j \in Matching : k <= j

MeanOfArgs == (jins1_arg.confidence + jins2_arg.confidence) \div 2

\* C7: the first structure, in catalog order, with the matched jins1 and with
\* the matched jins2 as jins2 or alt_jins2 is returned; when it matched on
\* jins2 the confidence is the mean of the two confidences and no variant
\* flag is set.
C7_FirstStructureExactMean ==
    (InferReturned /\ Matching # {}) =>
        /\ result.maqam = MAQAM_STRUCTURE[FirstMatching].name
        /\ result.jins1 = jins1_arg.jins
        /\ result.jins2 = jins2_arg.jins
        /\ MatchesExactly(FirstMatching) =>
              /\ 2 * result.confidence = jins1_arg.confidence + jins2_arg.confidence
              /\ "variant" \notin DOMAIN result

\* C7 witness: an exact match on a structure that is not the first with that
\* jins1, with two different confidences.
C7_Witness ==
    /\ InferReturned
    /\ Matching # {}
    /\ MatchesExactly(FirstMatching)
    /\ \E j \in 1..(FirstMatching - 1) : MAQAM_STRUCTURE[j].jins1 = jins1_arg.jins
    /\ jins1_arg.confidence # jins2_arg.confidence
    /\ jins2_arg.confidence > 0
    /\ result.maqam = MAQAM_STRUCTURE[FirstMatching].name

\* C8: when the first matching structure matched only through alt_jins2 the
\* result has its name, confidence = mean * 0.9 and variant = true; variant
\* is present in no other case.
C8_AlternateIsPenalisedVariant ==
    InferReturned =>
        /\ (Matching # {} /\ ~MatchesExactly(FirstMatching)) =>
              /\ result.maqam = MAQAM_STRUCTURE[FirstMatching].name
              /\ 10 * result.confidence = 9 * MeanOfArgs
              /\ "variant" \in DOMAIN result
              /\ result.variant = TRUE
        /\ "variant" \in DOMAIN result =>
              (Matching # {} /\ ~MatchesExactly(FirstMatching))

\* C8 witness: a variant result with a positive confidence.
C8_Witness ==
    /\ InferReturned
    /\ Matching # {}
    /\ ~MatchesExactly(FirstMatching)
    /\ "variant" \in DOMAIN result
    /\ result.confidence > 0
    /\ jins1_arg.confidence # jins2_arg.confidence

\* The family of the catalog jins of that name, "Unknown" for any other name.
FamilyOf(jins_name) ==
    IF \E k \in DOMAIN JINS_LIBRARY : JINS_LIBRARY[k].name = jins_name
    THEN LET k == CHOOSE i \in DOMAIN JINS_LIBRARY : JINS_LIBRARY[i].name = jins_name
         IN  JINS_LIBRARY[k].family
    ELSE "Unknown"

\* C9: when no structure matches, the result is "<jins1>-based" with
\* confidence jins1.confidence * 0.6 and the family of the jins1 template
\* ("Unknown" when jins1 is no catalog jins); "Unknown" as jins1 or jins2
\* takes this path.
C9_FallbackIsJins1Based ==
    InferReturned =>
        /\ Matching = {} =>
              /\ result.maqam = jins1_arg.jins \o "-based"
              /\ 10 * result.confidence = 6 * jins1_arg.confidence
              /\ result.family = FamilyOf(jins1_arg.jins)
              /\ result.jins1 = jins1_arg.jins
              /\ result.jins2 = jins2_arg.jins
        /\ (jins1_arg.jins = "Unknown" \/ jins2_arg.jins = "Unknown") =>
              /\ Matching = {}
              /\ result.maqam = jins1_arg.jins \o "-based"

\* C9 witness: jins1 heads a structure but the matched jins2 fits none of
\* them, and the fallback's confidence is positive.
C9_Witness ==
    /\ InferReturned
    /\ Matching = {}
    /\ \E k \in DOMAIN MAQAM_STRUCTURE : MAQAM_STRUCTURE[k].jins1 = jins1_arg.jins
    /\ jins2_arg.jins # "Unknown"
    /\ result.confidence > 0
    /\ result.family # "Unknown"

(***************************************************************************)
(* Claims about analyze_full_sequence (specification SpecAnalyze)          *)
(***************************************************************************)
AnalyzeReturned == pc = "analyze_full_sequence"

CandidateRoots == {12, 15, 18, 21}

\* Boundary b is skipped: its lower region has fewer than 3 elements or its
\* upper region fewer than 2.
Skipped(b) == Len(Below(sequence, b)) < 3 \/ Len(AtOrAbove(sequence, b)) < 2

Tried == {b \in CandidateRoots : ~Skipped(b)}

\* What boundary b yields: both regions matched with the default tolerance
\* and the maqam inferred from the two matches.
Candidate(b) ==
    predict_maqam_from_jins(match_jins(Below(sequence, b), DefaultTolerance),
                            match_jins(AtOrAbove(sequence, b), DefaultTolerance))

\* C1: on [0,5,9,15,21,24,30] analyze_full_sequence returns boundary 15,
\* jins1 Bayati, jins2 Nahawand, maqam Bayati and confidence 1.0.
C1_BayatiScenario ==
    (AnalyzeReturned /\ sequence = <<0, 5, 9, 15, 21, 24, 30>>) =>
        /\ "jins2_root" \in DOMAIN result
        /\ result.jins2_root = 15
        /\ result.jins1 = "Bayati"
        /\ result.jins2 = "Nahawand"
        /\ result.maqam = "Bayati"
        /\ result.confidence = ConfOne

\* C10: the result is that of a non-skipped boundary among 12, 15, 18, 21
\* with the highest confidence, the earliest such boundary on a tie, with
\* jins2_root set to that boundary.
C10_BestBoundaryWins ==
    (AnalyzeReturned /\ Tried # {}) =>
        LET candidate == [b \in Tried |-> Candidate(b)]
        IN  \E b \in Tried :
                /\ result = candidate[b] @@ [jins2_root |-> b]
                /\ \A c \in Tried : candidate[c].confidence <= candidate[b].confidence
                /\ \A c \in Tried : c < b => candidate[c].confidence < candidate[b].confidence

\* C10 witness: a boundary is skipped, two tried boundaries tie at the
\* highest confidence with different results, and the earlier one is returned.
C10_Witness ==
    /\ AnalyzeReturned
    /\ \E s \in CandidateRoots : Skipped(s)
    /\ \E b, c \in Tried :
          /\ b < c
          /\ result.jins2_root = b
          /\ Candidate(c).confidence = Candidate(b).confidence
          /\ Candidate(c).maqam # Candidate(b).maqam

\* C11: when every candidate boundary is skipped (the empty sequence
\* included) the result is the sentinel: maqam, jins1 and jins2 "Unknown",
\* confidence 0.0, and no jins2_root key.
C11_AllSkippedIsSentinel ==
    (AnalyzeReturned /\ Tried = {}) =>
        /\ result.maqam = "Unknown"
        /\ result.jins1 = "Unknown"
        /\ result.jins2 = "Unknown"
        /\ result.confidence = 0
        /\ "jins2_root" \notin DOMAIN result

\* C11 witness: a sequence long enough to be analysed, every boundary of
\* which is skipped, has returned.
C11_Witness ==
    /\ AnalyzeReturned
    /\ Len(sequence) >= MinJins1Len + MinJins2Len
    /\ Tried = {}
    /\ \E b \in CandidateRoots : Len(Below(sequence, b)) >= MinJins1Len

(***************************************************************************)
(* Claims about the fusion (specification SpecFusion)                      *)
(***************************************************************************)
FusionReturned == pc = "fusion"

\* The value a score map gives to a key it holds.
ScoreOf(scores, key) ==
    LET i == CHOOSE j \in DOMAIN scores : scores[j].key = key IN scores[i].value

Scored(scores) == {scores[i].key : i \in DOMAIN scores}

\* key holds a largest value of the map.
IsArgMax(scores, key) ==
    /\ key \in Scored(scores)
    /\ \A other \in Scored(scores) : ScoreOf(scores, other) <= ScoreOf(scores, key)

LowestScore ==
    CHOOSE v \in {markov_scores_arg[i].value : i \in DOMAIN markov_scores_arg} :
        \A i \in DOMAIN markov_scores_arg : v <= markov_scores_arg[i].value

HighestScore ==
    CHOOSE v \in {markov_scores_arg[i].value : i \in DOMAIN markov_scores_arg} :
        \A i \in DOMAIN markov_scores_arg : v >= markov_scores_arg[i].value

\* The classifier scores the winner.
ClassifierPresent == result.prediction \in Scored(mlp_scores_arg)

\* The transition map scores the winner, has more than one entry and a
\* non-zero range.
TransitionPresent ==
    /\ result.prediction \in Scored(markov_scores_arg)
    /\ Len(markov_scores_arg) > 1
    /\ HighestScore > LowestScore

ClassifierSource == ScoreOf(mlp_scores_arg, result.prediction)

\* (score[winner] - min) / (max - min), in units of 1/ConfUnit.  The
\* quotient is exact: the ranges of the inputs divide ConfUnit.
TransitionSource ==
    ((ScoreOf(markov_scores_arg, result.prediction) - LowestScore) * ConfUnit)
        \div (HighestScore - LowestScore)

\* The sum and the number of the classifier and transition sources present.
StatisticalSum ==
    (IF ClassifierPresent THEN ClassifierSource ELSE 0)
    + (IF TransitionPresent THEN TransitionSource ELSE 0)

StatisticalCount ==
    (IF ClassifierPresent THEN 1 ELSE 0) + (IF TransitionPresent THEN 1 ELSE 0)

\* C13: the fused confidence is the mean of the sources present, the
\* symbolic confidence being always one of them, even when it is 0.0 (a
\* symbolic 0.0 with a classifier probability p gives p/2).
C13_SymbolicAlwaysAveraged ==
    FusionReturned =>
        result.confidence * (1 + StatisticalCount)
            = jins_result_arg.confidence + StatisticalSum

\* The symbolic confidence as the code counts it: a source unless it is 0.0.
SymbolicPresent == jins_result_arg.confidence # 0

\* C14: the transition source is (score[winner] - min) / (max - min); it is
\* averaged in only when the transition map has more than one entry and a
\* non-zero range, and is omitted otherwise; when the winner is the arg-max
\* of such a map (the classifier map being empty) the source is 1.0.
C14_TransitionSourceIsNormalised ==
    FusionReturned =>
        /\ result.confidence * ((IF SymbolicPresent THEN 1 ELSE 0) + StatisticalCount)
               = (IF SymbolicPresent THEN jins_result_arg.confidence ELSE 0)
                 + StatisticalSum
        /\ (mlp_scores_arg = <<>> /\ TransitionPresent) => TransitionSource = ConfOne

\* C14 witness: with no classifier and no symbolic confidence, the
\* transition map {"Rast": -2, "Hijaz": -5} makes "Rast" win with
\* confidence 1.0.
C14_Witness ==
    /\ FusionReturned
    /\ mlp_scores_arg = <<>>
    /\ ~SymbolicPresent
    /\ markov_scores_arg = <<[key |-> "Rast", value |-> 0 - 2],
                             [key |-> "Hijaz", value |-> 0 - 5]>>
    /\ result.prediction = "Rast"
    /\ result.confidence = ConfOne

\* The classifier's winner is not the symbolic result's maqam.
ClassifierOverrules ==
    /\ FusionReturned
    /\ mlp_scores_arg # <<>>
    /\ result.prediction # jins_result_arg.maqam

\* C15 as stated: when the classifier's winner differs from the symbolic
\* maqam, the symbolic confidence is left out of the average.
C15_OnlyWinnerSourcesCount ==
    ClassifierOverrules =>
        result.confidence * StatisticalCount = StatisticalSum

\* C15 amended: when the classifier's winner differs from the symbolic
\* maqam, a non-zero symbolic confidence is still averaged in; the
\* classifier map {"Rast": 0.9, "Hijaz": 0.1} with the symbolic result
\* ("Hijaz", 0.4) and no transition scores gives "Rast" with confidence 0.65.
C15_SymbolicCountsForAnyWinner ==
    (ClassifierOverrules /\ SymbolicPresent) =>
        /\ result.confidence * (1 + StatisticalCount)
               = jins_result_arg.confidence + StatisticalSum
        /\ ( /\ mlp_scores_arg = <<[key |-> "Rast", value |-> (9 * ConfUnit) \div 10],
                                   [key |-> "Hijaz", value |-> ConfUnit \div 10]>>
             /\ jins_result_arg.maqam = "Hijaz"
             /\ jins_result_arg.confidence = (2 * ConfUnit) \div 5
             /\ markov_scores_arg = <<>> )
           => /\ result.prediction = "Rast"
              /\ result.confidence = (65 * ConfUnit) \div 100

\* C15 witness: the scenario has been fused.
C15_Witness ==
    /\ ClassifierOverrules
    /\ mlp_scores_arg = <<[key |-> "Rast", value |-> (9 * ConfUnit) \div 10],
                          [key |-> "Hijaz", value |-> ConfUnit \div 10]>>
    /\ jins_result_arg.maqam = "Hijaz"
    /\ jins_result_arg.confidence = (2 * ConfUnit) \div 5
    /\ markov_scores_arg = <<>>
    /\ result.confidence # (9 * ConfUnit) \div 10

(***************************************************************************)
(* Claims about predict (specification SpecPredict)                        *)
(***************************************************************************)
PredictReturned == pc = "predict"

\* C16: whatever the sequence, the classifier map (values in [0,1]) and the
\* transition map (empty, of one entry or of several), the fused confidence
\* returned by predict lies in [0,1].
C16_FusedConfidenceInUnitInterval ==
    PredictReturned => (0 <= result.confidence /\ result.confidence <= ConfOne)

\* C16 witness: a symbolic confidence, a classifier probability and a
\* normalised transition score have been averaged into a confidence
\* strictly between 0 and 1.
C16_Witness ==
    /\ PredictReturned
    /\ result.jins_analysis.jins_confidence > 0
    /\ result.prediction \in Scored(mlp_scores_arg)
    /\ result.prediction \in Scored(markov_scores_arg)
    /\ Len(markov_scores_arg) > 1
    /\ \E i, j \in DOMAIN markov_scores_arg :
          markov_scores_arg[i].value # markov_scores_arg[j].value
    /\ 0 < result.confidence
    /\ result.confidence < ConfOne

(***************************************************************************)
(* Claims about predict_timeline (specification SpecTimeline)              *)
(***************************************************************************)
TimelineScanning == pc = "timeline_scan"

TimelineReturned == pc = "predict_timeline"

\* The frames of the window emitted at position i when the windows start at
\* 0, hop_frames, 2*hop_frames, ...
StartOf(i) == (i - 1) * hop_frames

EndOf(i) ==
    IF StartOf(i) + window_frames <= total_frames
    THEN StartOf(i) + window_frames
    ELSE total_frames

\* C17: the windows start at frames 0, hop_frames, 2*hop_frames, ..., each
\* ends at min(start + window_frames, total_frames), the scan stops at the
\* first start that is past the end or whose span is under
\* floor(window_frames / 4), so every emitted window spans at least
\* floor(window_frames / 4) and at most window_frames frames, and the
\* emitted start times are strictly increasing.
C17_WindowsAdvance ==
    (TimelineScanning \/ TimelineReturned) =>
        /\ \A i \in DOMAIN timeline :
              /\ timeline[i].start_time = time_of(StartOf(i), sr)
              /\ timeline[i].end_time = time_of(EndOf(i), sr)
              /\ EndOf(i) - StartOf(i) >= window_frames \div 4
              /\ EndOf(i) - StartOf(i) <= window_frames
        /\ \A i \in DOMAIN timeline :
              i > 1 => timeline[i - 1].start_time < timeline[i].start_time
        /\ TimelineReturned =>
              LET next == Len(timeline) + 1
              IN  \/ StartOf(next) >= total_frames
                  \/ EndOf(next) - StartOf(next) < window_frames \div 4

\* The windows that differ from the one before.
Changes == {i \in DOMAIN timeline : i > 1 /\ timeline[i].maqam # timeline[i - 1].maqam}

\* The k-th change in window order.
Change(k) == CHOOSE i \in Changes : Cardinality({j \in Changes : j <= i}) = k

\* C18: the modulation list holds exactly one event per pair of adjacent
\* windows with different maqam, in window order: its time is the later
\* window's start_time, from_maqam the earlier window's maqam and to_maqam
\* the later window's.
C18_OneEventPerChange ==
    TimelineReturned =>
        /\ Len(result.modulations) = Cardinality(Changes)
        /\ \A k \in DOMAIN result.modulations :
              /\ result.modulations[k].time = timeline[Change(k)].start_time
              /\ result.modulations[k].from_maqam = timeline[Change(k) - 1].maqam
              /\ result.modulations[k].to_maqam = timeline[Change(k)].maqam

\* C18 witness: a timeline that goes from one maqam to another and back,
\* and also holds two adjacent windows of the same maqam, has returned with
\* its events at distinct times.
C18_Witness ==
    /\ TimelineReturned
    /\ Len(result.modulations) >= 2
    /\ result.modulations[1].from_maqam = result.modulations[2].to_maqam
    /\ result.modulations[1].time < result.modulations[2].time
    /\ \E i \in DOMAIN timeline : i > 1 /\ i \notin Changes

WindowsOf(maqam) == {i \in DOMAIN timeline : timeline[i].maqam = maqam}

FirstWindowOf(maqam) == CHOOSE i \in WindowsOf(maqam) : \A j \in WindowsOf(maqam) : i <= j

\* C19: dominant_maqam is the maqam of the most windows, among several such
\* the one whose first window comes earliest; it is "Unknown" when no
\* window was emitted.
C19_DominantIsFirstMostFrequent ==
    TimelineReturned =>
        IF timeline = <<>> THEN result.dominant_maqam = "Unknown"
        ELSE /\ WindowsOf(result.dominant_maqam) # {}
             /\ \A i \in DOMAIN timeline :
                   LET other == timeline[i].maqam
                   IN  /\ Cardinality(WindowsOf(other))
                            <= Cardinality(WindowsOf(result.dominant_maqam))
                       /\ ( /\ other # result.dominant_maqam
                            /\ Cardinality(WindowsOf(other))
                                 = Cardinality(WindowsOf(result.dominant_maqam)) )
                          => FirstWindowOf(result.dominant_maqam) < FirstWindowOf(other)

\* C19 witness: two maqamat tie for the most windows, each with several; the
\* one seen first is returned as dominant although the other reached that
\* count earlier.
C19_Witness ==
    /\ TimelineReturned
    /\ Cardinality(WindowsOf(result.dominant_maqam)) >= 2
    /\ \E i \in DOMAIN timeline :
          /\ timeline[i].maqam # result.dominant_maqam
          /\ Cardinality(WindowsOf(timeline[i].maqam))
               = Cardinality(WindowsOf(result.dominant_maqam))
          /\ FirstWindowOf(result.dominant_maqam) < FirstWindowOf(timeline[i].maqam)
          /\ \A j \in WindowsOf(timeline[i].maqam) : j < Len(timeline)

(***************************************************************************)
(* Claims about the catalog (specification SpecInfer)                      *)
(***************************************************************************)
\* C20: every entry of MAQAM_STRUCTURE has jins1_root 0 and a jins2_root
\* among the candidate boundaries 12, 15, 18, 21 of analyze_full_sequence.
C20_RootsAreCandidateBoundaries ==
    \A k \in DOMAIN maqam_structure :
        /\ maqam_structure[k].jins1_root = 0
        /\ \E r \in DOMAIN jins2_roots : maqam_structure[k].jins2_root = jins2_roots[r]

(***************************************************************************)
(* Claims about the jins templates (specification SpecMatch)               *)
(***************************************************************************)
\* C21: every template of JINS_LIBRARY has intervals_bins that are
\* non-negative integers, strictly increasing, starting with 0 and below
\* one octave (36 bins).
C21_TemplatesAreAscendingWithinOctave ==
    \A k \in DOMAIN jins_library :
        LET offsets == jins_library[k].intervals_bins
        IN  /\ Len(offsets) > 0
            /\ offsets[1] = 0
            /\ \A i \in DOMAIN offsets :
                  /\ offsets[i] \in Nat
                  /\ offsets[i] < bins_per_octave
                  /\ i > 1 => offsets[i - 1] < offsets[i]

\* C21 witness: match_jins has scanned the catalog on a template's own
\* offsets, a template of five offsets reaching up to 21.
C21_Witness ==
    /\ MatchReturned
    /\ \E k \in DOMAIN jins_library :
          /\ sequence = jins_library[k].intervals_bins
          /\ Len(sequence) = 5
          /\ sequence[5] = 21

(***************************************************************************)
(* C22: results are well formed                                            *)
(***************************************************************************)
\* A match result: a jins name of the catalog or "Unknown", and a
\* confidence between 0 and 1.
WellFormedMatch(r) ==
    /\ DOMAIN r = {"jins", "confidence"}
    /\ r.jins \in JinsNames
    /\ r.confidence \in 0..ConfOne

\* A maqam result: a maqam name, two jins names, a family and a confidence
\* between 0 and 1.
WellFormedMaqam(r) ==
    /\ {"maqam", "jins1", "jins2", "confidence", "family"} \subseteq DOMAIN r
    /\ r.maqam # None
    /\ r.jins1 \in JinsNames
    /\ r.jins2 \in JinsNames
    /\ r.family # None
    /\ r.confidence \in 0..ConfOne

\* C22: match_jins, segment_into_jins, predict_maqam_from_jins,
\* analyze_full_sequence and the fusion step always return, and what they
\* return is well formed: a match result with a name and a confidence, a
\* pair of regions that holds every note, a maqam result with its names and
\* a confidence, a prediction with a confidence; this for every sequence
\* (the empty one included), every pair of match results ("Unknown"
\* included) and every score maps (empty ones included).  None never leaves
\* an operation.
C22_ResultsAreWellFormed ==
    /\ MatchReturned => WellFormedMatch(result)
    /\ SegmentReturned =>
          /\ Len(result) = 2
          /\ Len(result[1]) + Len(result[2]) = Len(sequence)
    /\ InferReturned => WellFormedMaqam(result)
    /\ AnalyzeReturned => WellFormedMaqam(result)
    /\ FusionReturned =>
          /\ DOMAIN result = {"prediction", "confidence"}
          /\ result.prediction # None
          /\ result.confidence \in 0..ConfOne

\* analyze_full_sequence returned on the empty sequence.
C22_Witness ==
    /\ AnalyzeReturned
    /\ sequence = <<>>
    /\ result = UnknownResult

(***************************************************************************)
(* C23: the catalog and the caller's sequence are only read                *)
(***************************************************************************)
\* A call is made: the caller's input is handed over and a result comes
\* back, or a scan of predict_timeline starts or goes on.
CallStep == pc = "input" \/ pc = "timeline_scan"

\* C23: no call of match_jins, segment_into_jins, predict_maqam_from_jins,
\* analyze_full_sequence, predict or predict_timeline changes the jins
\* templates, the maqam structures or the sequence the caller passed; so
\* after any number of calls, one after another, the catalog is the one
\* the analyzer was built with.
C23_CatalogAndInputAreOnlyRead ==
    /\ [](jins_library = JINS_LIBRARY /\ maqam_structure = MAQAM_STRUCTURE)
    /\ [][CallStep /\ pc' # "input" =>
             /\ jins_library' = jins_library
             /\ maqam_structure' = maqam_structure
             /\ sequence' = sequence]_vars

\* analyze_full_sequence returned a maqam at a boundary that is not the
\* jins2_root of the maqam's structure, and the structure still has its own.
C23_Witness ==
    /\ AnalyzeReturned
    /\ "jins2_root" \in DOMAIN result
    /\ \E k \in DOMAIN maqam_structure :
          /\ maqam_structure[k].name = result.maqam
          /\ maqam_structure[k].jins2_root # result.jins2_root
          /\ MAQAM_STRUCTURE[k].jins2_root = maqam_structure[k].jins2_root

(***************************************************************************)
(* C24: the windows of a timeline are predicted independently              *)
(***************************************************************************)
WindowsPredicting == pc = "windows"

WindowsReturned == pc = "windows_done"

\* The timeline of the scan that takes the windows one after another.
SequentialTimeline ==
    scan_timeline(track, 0, window_frames, hop_frames, sr, markov_models)

C25_TriedBoundaryIsPositive ==
    AnalyzeReturned =>
        /\ \A b \in Tried : Candidate(b).confidence > 0
        /\ result = UnknownResult => Tried = {}

\* A boundary was tried whose lower region holds one note only, a note that
\* is no offset of any template, and a result with that boundary returned.
C25_Witness ==
    /\ AnalyzeReturned
    /\ "jins2_root" \in DOMAIN result
    /\ result.jins2_root \in Tried
    /\ \A k \in DOMAIN jins_library : \A i \in DOMAIN jins_library[k].intervals_bins :
          jins_library[k].intervals_bins[i] # sequence[1]
    /\ unique_notes_of(Below(sequence, result.jins2_root)) = {sequence[1]}

(***************************************************************************)
(* C26: templates and structures that are never returned                   *)
(***************************************************************************)
\* The templates that repeat the offsets of an earlier template.
ShadowedJins == {"Athar_Kurd", "Jiharkah", "Upper_Rast"}

\* The structures whose jins1 or jins2 is such a template.
ShadowedMaqamat == {"Rast", "Shadd_Araban", "Jiharkah", "Athar_Kurd"}

\* C26: whatever the input and the tolerance, match_jins never returns
\* "Athar_Kurd", "Jiharkah" or "Upper_Rast": each has the offsets of an
\* earlier template (Hijaz, Ajam, Mustaar), whose score it can equal but not
\* exceed.  Hence analyze_full_sequence never returns the maqam "Rast",
\* "Shadd_Araban", "Jiharkah" or "Athar_Kurd".
C26_ShadowedNamesNeverReturned ==
    /\ MatchReturned => result.jins \notin ShadowedJins
    /\ AnalyzeReturned =>
          /\ result.maqam \notin ShadowedMaqamat
          /\ result.jins1 \notin ShadowedJins
          /\ result.jins2 \notin ShadowedJins

\* match_jins returned on the offsets of a shadowed template, with a full
\* score for the earlier template of the same offsets.
C26_Witness ==
    /\ MatchReturned
    /\ \E k \in DOMAIN jins_library :
          /\ jins_library[k].name \in ShadowedJins
          /\ sequence = jins_library[k].intervals_bins
    /\ result.confidence = ConfOne
    /\ result.jins \in {"Hijaz", "Ajam", "Mustaar"}

(***************************************************************************)
(* C27: no alternate jins2 shadows an exact pair                           *)
(***************************************************************************)
\* The structures that have the matched jins1 and the matched jins2.
ExactStructures == {k \in DOMAIN MAQAM_STRUCTURE : MatchesExactly(k)}

\* C27: in the shipped catalog, when some structure has the matched jins1
\* as jins1 and the matched jins2 as jins2, predict_maqam_from_jins returns
\* a structure that has both, with the plain mean as confidence and without
\* the variant flag: no earlier structure takes the pair as an alternate.
C27_AlternateNeverShadowsExact ==
    (InferReturned /\ ExactStructures # {}) =>
        /\ \E k \in ExactStructures : result.maqam = MAQAM_STRUCTURE[k].name
        /\ "variant" \notin DOMAIN result
        /\ result.confidence = MeanOfArgs

\* An exact pair was returned past an earlier structure of the same jins1
\* that has an alternate jins2.
C27_Witness ==
    /\ InferReturned
    /\ \E k \in ExactStructures :
          /\ result.maqam = MAQAM_STRUCTURE[k].name
          /\ \E j \in 1..(k - 1) :
                /\ MAQAM_STRUCTURE[j].jins1 = jins1_arg.jins
                /\ "alt_jins2" \in DOMAIN MAQAM_STRUCTURE[j]
    /\ result.confidence > 0
    /\ "variant" \notin DOMAIN result

(***************************************************************************)
(* C28: the confidence tells the kind of result                            *)
(***************************************************************************)
SymbolicReturned == InferReturned \/ AnalyzeReturned

\* The result is the guess made from jins1 alone.
IsFallback == result.maqam = result.jins1 \o "-based"

\* The result names a structure of the catalog that has the returned jins1
\* and jins2 as its jins1 and jins2.
IsExactStructure ==
    \E k \in DOMAIN MAQAM_STRUCTURE :
        /\ MAQAM_STRUCTURE[k].name = result.maqam
        /\ MAQAM_STRUCTURE[k].jins1 = result.jins1
        /\ MAQAM_STRUCTURE[k].jins2 = result.jins2

\* C28: a "<jins1>-based" result has a confidence of 0.6 at most and a
\* variant result one of 0.9 at most; so a result of
\* predict_maqam_from_jins or of analyze_full_sequence with a confidence
\* above 0.9 names a catalog structure whose jins1 and jins2 are the
\* returned ones, and has no variant flag.
C28_ConfidenceTellsTheKind ==
    SymbolicReturned =>
        /\ IsFallback => result.confidence <= FallbackPenalty
        /\ "variant" \in DOMAIN result => result.confidence <= VariantPenalty
        /\ result.confidence > VariantPenalty =>
              /\ IsExactStructure
              /\ "variant" \notin DOMAIN result

\* analyze_full_sequence returned a confidence above 0.9.
C28_Witness ==
    /\ AnalyzeReturned
    /\ result.confidence > VariantPenalty
    /\ IsExactStructure

(***************************************************************************)
(* C29: the scan of predict_timeline ends                                  *)
(***************************************************************************)
\* A scan whose hop is one frame or more returns, and what it returns is
\* the whole timeline.
ScanWithPositiveHopReturns == (TimelineScanning /\ hop_frames >= 1) ~> TimelineReturned

\* A pass of the loop with a hop of no frame leaves start_frame where it was.
ZeroHopStaysInPlace ==
    [][(TimelineScanning /\ hop_frames = 0 /\ pc' = pc) => start_frame' = start_frame]_vars

\* C29: for every chromagram of finitely many frames and all positive
\* window_seconds and hop_seconds, a hop shorter than one frame included,
\* the scan of predict_timeline ends and the timeline is returned.
C29_ScanTerminates == TimelineScanning ~> TimelineReturned

(***************************************************************************)
(* C30: after /train the brain works with the new models                   *)
(***************************************************************************)
TrainSucceeded == pc = "train" /\ DictGet(result, "status", None) = "success"

\* The trainer of the request that has just returned.
TrainerOfRun == train_on_folders(NewTrainer, result.trained_maqamat, 1)

\* The entries of a dict.
Entries(d) == {d[i] : i \in DOMAIN d}

\* C30: after a successful /train request, whatever requests came before,
\* the brain's markov_models and jins_models are exactly the models that
\* this training run wrote to the model files, no model of an earlier load
\* remaining, and the brain's classifier is the one this run trained.
C30_BrainHoldsTheNewModels ==
    TrainSucceeded =>
        /\ Entries(markov_models) = Entries(TrainerOfRun.markov_counts)
        /\ Entries(jins_models) = Entries(TrainerOfRun.jins_counts)
        /\ mlp = trained_classifier(TrainerOfRun.y_train)

====
